---- MODULE Spec2Model ----
(***************************************************************************)
(* json-parser: the reader of src/unnamed/part_000 (the most complete      *)
(* revision of json.c in the repository) and the query API declared in     *)
(* src/json.h.                                                             *)
(*                                                                         *)
(* A file is a sequence of bytes (ASCII codes).  The parser's functions    *)
(* are operators over (file, stream state); a stream state is the FILE*    *)
(* position, the line counter *line_num and the diagnostics printed so     *)
(* far.  A function that returns a pointer returns a record with an ok     *)
(* flag (FALSE for NULL), the pointee v, and the stream state st it        *)
(* leaves behind.                                                          *)
(***************************************************************************)
EXTENDS Integers, Sequences, FiniteSets, TLC

VARIABLES
    file,    \* the bytes of the file at `path`
    tie,     \* how qsort orders members whose keys compare equal
    pc,      \* "start"; "read": json_read returned; "got": json_get_value
             \* returned; "object": json_get_object returned; "elem":
             \* json_array_get returned; "scanned": get_next_string returned;
             \* "printed": json_print_object returned; "reread": the second
             \* json_read returned
    object,  \* JsonObject* returned by json_read: [null, members]
    stream,  \* the stream as json_read left it: [pos, line, out]
    cur,     \* the JsonObject the client holds (the root or a nested object)
    key,     \* the key of the last json_get_value call
    value,   \* JsonValue* returned by the last json_get_value: [null, type, val]
    scan,    \* result of a direct get_next_string call: [ok, v, st]
    index,   \* the idx of the last json_array_get call
    printed, \* what json_print_object wrote to stdout
    reread,  \* JsonObject* returned by json_read of a file holding `printed`
    file2,   \* the bytes of a second file
    other,   \* JsonObject* returned by json_read of the second file
    merged,  \* JsonObject* returned by json_merge_objects(object, other)
    it,      \* JsonIterator*: [null, items, pos]
    current, \* what the last json_iterator_get returned: [null, item]
    visited, \* the items json_iterator_get returned before an increment
    owned,   \* the allocated blocks the document `object` owns
    calls    \* two json_read calls in progress: [pc, frame, object, ret]

\* The variables of the operations beyond reading and looking up.
printVars == <<printed, reread>>

mergeVars == <<file2, other, merged>>

iterVars == <<it, current, visited>>

heapVars == <<owned>>

concVars == <<calls>>

ext == <<printVars, mergeVars, iterVars, heapVars, concVars>>

vars == <<file, tie, pc, object, stream, cur, key, value, scan, index, ext>>

-----------------------------------------------------------------------------
(* Characters *)

Ch == [tab |-> 9, lf |-> 10, vt |-> 11, ff |-> 12, cr |-> 13, sp |-> 32,
       quote |-> 34, plus |-> 43, comma |-> 44, minus |-> 45, dot |-> 46,
       zero |-> 48, colon |-> 58, E |-> 69, lbracket |-> 91,
       backslash |-> 92, rbracket |-> 93, a |-> 97, b |-> 98, e |-> 101,
       f |-> 102, k |-> 107, n |-> 110, t |-> 116, x |-> 120,
       lbrace |-> 123, rbrace |-> 125]

EOF == -1

\* Variant: only the space and the newline count as white space.
isspace_blank(c) == c \in {Ch.sp, Ch.lf}

isspace(c) == c \in {Ch.sp, Ch.tab, Ch.lf, Ch.vt, Ch.ff, Ch.cr}

isdigit(c) == c \in 48..57

T_true  == <<116, 114, 117, 101>>
T_false == <<102, 97, 108, 115, 101>>
T_null  == <<110, 117, 108, 108>>

-----------------------------------------------------------------------------
(* Scanner *)

\* The stream json_read opens: position 0, line_num = 1, nothing printed.
\* Kept with it: unget, the ungetch calls since the last read or seek; most,
\* the greatest value unget has had; reads, the getch and fgets calls so far.
Stream0 == [pos |-> 0, line |-> 1, out |-> <<>>, unget |-> 0, most |-> 0, reads |-> 0]

\* Variant: diagnostics turned off.
print_error_off(st, message) == st

print_error(st, message) ==
    [st EXCEPT !.out = Append(@, [line |-> st.line, msg |-> message])]

ftell(st) == st.pos

fseek(st, offset) == [st EXCEPT !.pos = offset, !.unget = 0]

\* Results are bound as the arguments of local operators (After...), one
\* per statement of the C function that binds a result.
getch(f, st) ==
    LET Got(c) ==
            [c  |-> c,
             st |-> [st EXCEPT !.pos   = IF c = EOF THEN @ ELSE @ + 1,
                               !.line  = IF c = Ch.lf THEN @ + 1 ELSE @,
                               !.unget = 0,
                               !.reads = @ + 1]]
    IN  Got(IF st.pos < Len(f) THEN f[st.pos + 1] ELSE EOF)

\* ungetc(EOF) does nothing; any other character is the one just read, so
\* pushing it back is stepping the position back by one.
ungetch(st, c) ==
    [st EXCEPT !.line  = IF c = Ch.lf THEN @ - 1 ELSE @,
               !.pos   = IF c = EOF THEN @ ELSE @ - 1,
               !.unget = @ + 1,
               !.most  = IF st.unget + 1 > @ THEN st.unget + 1 ELSE @]

RECURSIVE get_next_nonspace(_, _)
get_next_nonspace(f, st) ==
    LET AfterGetch(g) ==
            IF g.c # EOF /\ isspace(g.c) THEN get_next_nonspace(f, g.st) ELSE g
    IN  AfterGetch(getch(f, st))

\* Variant: the character found is not pushed back.
peek_next_nonspace_consuming(f, st) == get_next_nonspace(f, st)

\* Variant: the byte before the character found is pushed back as well.
peek_next_nonspace_twice(f, st) ==
    LET AfterGet(g) == [c |-> g.c, st |-> ungetch(ungetch(g.st, g.c), Ch.sp)]
    IN  AfterGet(get_next_nonspace(f, st))

peek_next_nonspace(f, st) ==
    LET AfterGet(g) == [c |-> g.c, st |-> ungetch(g.st, g.c)]
    IN  AfterGet(get_next_nonspace(f, st))

RECURSIVE get_next_char_pos(_, _, _)
\* Variant: the end of the file counts as the character looked for.
get_next_char_pos_or_eof(f, st, ch) ==
    LET AfterGetch(g) ==
            IF g.c # EOF /\ g.c # ch
            THEN get_next_char_pos(f, g.st, ch)
            ELSE [end |-> ftell(g.st), st |-> g.st]
    IN  AfterGetch(getch(f, st))

\* Position after the next `ch`, or -2 at end of file.
get_next_char_pos(f, st, ch) ==
    LET AfterGetch(g) ==
            IF g.c # EOF /\ g.c # ch
            THEN get_next_char_pos(f, g.st, ch)
            ELSE [end |-> IF g.c # EOF THEN ftell(g.st) ELSE -2, st |-> g.st]
    IN  AfterGetch(getch(f, st))

\* fgets(s, size, file): at most size-1 bytes, stopping after a newline or at
\* end of file; NULL when end of file is met before any byte is read.  It
\* does not go through getch, so it leaves the line counter alone.
RECURSIVE fgets_read(_, _, _, _)
fgets_read(f, pos, room, acc) ==
    IF room = 0 \/ pos >= Len(f)
    THEN [s |-> acc, pos |-> pos]
    ELSE IF f[pos + 1] = Ch.lf
         THEN [s |-> Append(acc, f[pos + 1]), pos |-> pos + 1]
         ELSE fgets_read(f, pos + 1, room - 1, Append(acc, f[pos + 1]))

fgets(f, st, size) ==
    LET AfterRead(r) ==
            [null |-> (size > 1 /\ r.s = <<>>),
             s    |-> r.s,
             st   |-> [st EXCEPT !.pos = r.pos, !.unget = 0, !.reads = @ + 1]]
    IN  AfterRead(fgets_read(f, st.pos, size - 1, <<>>))

NullResult(st) == [ok |-> FALSE, v |-> <<>>, st |-> st]

\* Variant: the stream is put back where the span starts.
get_string_in_range_rewound(f, st, start_pos, end_pos) ==
    LET AfterFgets(r) ==
            IF r.null
            THEN NullResult(print_error(r.st, "Something went wrong reading from file"))
            ELSE [ok |-> TRUE, v |-> r.s, st |-> fseek(r.st, start_pos)]
    IN  AfterFgets(fgets(f, fseek(st, start_pos), (end_pos - start_pos) + 1))

\* n = end_pos - start_pos; the string is what fgets stored (string[n] = 0
\* lies at or after the terminator fgets wrote).
get_string_in_range(f, st, start_pos, end_pos) ==
    LET AfterFgets(r) ==
            IF r.null
            THEN NullResult(print_error(r.st, "Something went wrong reading from file"))
            ELSE [ok |-> TRUE, v |-> r.s, st |-> r.st]
    IN  AfterFgets(fgets(f, fseek(st, start_pos), (end_pos - start_pos) + 1))

get_next_string(f, st) ==
    LET AfterString(s) == [ok |-> s.ok, v |-> s.v, st |-> getch(f, s.st).st]
        AfterEnd(start_pos, e) ==
            IF e.end = -2
            THEN NullResult(print_error(e.st, "Expected closing quotes"))
            ELSE AfterString(get_string_in_range(f, e.st, start_pos, e.end - 1))
        AfterQuote(g) ==
            IF g.c # Ch.quote
            THEN NullResult(print_error(g.st, "Missing quotes"))
            ELSE AfterEnd(ftell(g.st), get_next_char_pos(f, g.st, Ch.quote))
    IN  AfterQuote(get_next_nonspace(f, st))

-----------------------------------------------------------------------------
(* Number recognizer *)

\* Variant: a fraction counts as an integer ending.
accepting_state_int_fraction(state) == state = 2 \/ state = 3 \/ state = 5

accepting_state_int(state) == state = 2 \/ state = 3

\* Variant: a bare decimal point counts as a float ending.
accepting_state_float_point(state) == state = 4 \/ state = 5 \/ state = 8

accepting_state_float(state) == state = 5 \/ state = 8

next_state(state, c) ==
    CASE state = 0 -> IF c = Ch.minus THEN 1
                      ELSE IF c = Ch.zero THEN 2
                      ELSE IF isdigit(c) THEN 3 ELSE -1
      [] state = 1 -> IF c = Ch.zero THEN 2
                      ELSE IF isdigit(c) THEN 3 ELSE -1
      [] state = 2 -> IF c = Ch.dot THEN 4
                      ELSE IF c = Ch.e THEN 6
                      ELSE IF c = Ch.E THEN 6 ELSE -1
      [] state = 3 -> IF c = Ch.dot THEN 4
                      ELSE IF c = Ch.e THEN 6
                      ELSE IF c = Ch.E THEN 6
                      ELSE IF isdigit(c) THEN 3 ELSE -1
      [] state = 4 -> IF isdigit(c) THEN 5 ELSE -1
      [] state = 5 -> IF c = Ch.e THEN 6
                      ELSE IF c = Ch.E THEN 6
                      ELSE IF isdigit(c) THEN 5 ELSE -1
      [] state = 6 -> IF c = Ch.plus THEN 7
                      ELSE IF c = Ch.minus THEN 7
                      ELSE IF isdigit(c) THEN 8 ELSE -1
      [] state = 7 -> IF isdigit(c) THEN 8 ELSE -1
      [] state = 8 -> IF isdigit(c) THEN 8 ELSE -1
      [] OTHER     -> -1

\* The loop of dfa_number, `state` being the state before the next getch;
\* end is the position after the literal, or -2.
RECURSIVE dfa_number_from(_, _, _)
dfa_number_from(f, st, state) ==
    LET Reject(prev_state, st1) ==
            IF accepting_state_int(prev_state)
            THEN [end |-> ftell(st1), type |-> "JTYPE_INT", st |-> st1]
            ELSE IF accepting_state_float(prev_state)
            THEN [end |-> ftell(st1), type |-> "JTYPE_FLOAT", st |-> st1]
            ELSE [end |-> -2, type |-> "none", st |-> st1]
        Step(g, next) ==
            IF next = -1 THEN Reject(state, ungetch(g.st, g.c))
            ELSE dfa_number_from(f, g.st, next)
        AfterGetch(g) ==
            IF g.c = EOF THEN [end |-> -2, type |-> "none", st |-> g.st]
            ELSE Step(g, next_state(state, g.c))
    IN  AfterGetch(getch(f, st))

dfa_number(f, st) == dfa_number_from(f, st, 0)

-----------------------------------------------------------------------------
(* atof: the decimal value m * 10^e of a literal of the number grammar,    *)
(* with m free of trailing zeros (so 1.50, 15e-1 and 1.5 are one value).   *)

RECURSIVE DigitsValue(_)
DigitsValue(s) ==
    IF s = <<>> THEN 0
    ELSE 10 * DigitsValue(SubSeq(s, 1, Len(s) - 1)) + (s[Len(s)] - Ch.zero)

\* Index of the first element of s that is in `set`, Len(s)+1 if there is none.
IndexOf(s, set) ==
    IF \E i \in 1..Len(s) : s[i] \in set
    THEN CHOOSE i \in 1..Len(s) : s[i] \in set /\ \A j \in 1..(i - 1) : s[j] \notin set
    ELSE Len(s) + 1

RECURSIVE Normalize(_)
Normalize(d) ==
    IF d.m = 0 THEN [m |-> 0, e |-> 0]
    ELSE IF d.m % 10 = 0 THEN Normalize([m |-> d.m \div 10, e |-> d.e + 1])
    ELSE d

Signed(neg, n) == IF neg THEN -n ELSE n

IsSign(s) == s # <<>> /\ s[1] \in {Ch.plus, Ch.minus}

IsMinus(s) == s # <<>> /\ s[1] = Ch.minus

Unsigned(s) == IF IsSign(s) THEN Tail(s) ELSE s

atof(s) ==
    LET Decimal(neg, ip, fp, expo) ==
            Normalize([m |-> Signed(neg, DigitsValue(ip \o fp)),
                       e |-> Signed(IsMinus(expo), DigitsValue(Unsigned(expo))) - Len(fp)])
        Mantissa(neg, mant, dPos, expo) ==
            Decimal(neg, SubSeq(mant, 1, dPos - 1), SubSeq(mant, dPos + 1, Len(mant)), expo)
        Split(neg, u, ePos) ==
            Mantissa(neg, SubSeq(u, 1, ePos - 1),
                     IndexOf(SubSeq(u, 1, ePos - 1), {Ch.dot}),
                     SubSeq(u, ePos + 1, Len(u)))
        Body(neg, u) == Split(neg, u, IndexOf(u, {Ch.e, Ch.E}))
    IN  Body(IsMinus(s), Unsigned(s))

RECURSIVE Pow10(_)
Pow10(n) == IF n <= 0 THEN 1 ELSE 10 * Pow10(n - 1)

\* value->val_int = num: the conversion of a double to long long truncates.
to_long_long(d) ==
    IF d.e >= 0 THEN d.m * Pow10(d.e)
    ELSE IF d.m >= 0 THEN d.m \div Pow10(-d.e)
    ELSE -((-d.m) \div Pow10(-d.e))

-----------------------------------------------------------------------------
(* Values.  A JsonValue is [type, val]; val is the member of the union the *)
(* type selects: an object [members], an array [values], the bytes of a    *)
(* string, an integer, a decimal [m, e]; <<>> where the union is not set.  *)

EmptyObject == [members |-> <<>>]

EmptyArray == [values |-> <<>>]

\* The sign of strcmp: the difference of the first bytes that differ, the
\* end of a string counting as byte 0.
strcmp(s1, s2) ==
    LET At(s, i) == IF i <= Len(s) THEN s[i] ELSE 0
        Longer == IF Len(s1) < Len(s2) THEN Len(s2) ELSE Len(s1)
        Differ == {i \in 1..Longer : At(s1, i) # At(s2, i)}
        First(d) == At(s1, d) - At(s2, d)
    IN  IF Differ = {} THEN 0
        ELSE First(CHOOSE i \in Differ : \A j \in Differ : i <= j)

\* Variant: the operands of the comparison swapped.
json_member_cmp_swapped(m1, m2) == strcmp(m2.key, m1.key)

json_member_cmp(m1, m2) == strcmp(m1.key, m2.key)

push_data(list, data) == Append(list, data)

\* Variant: a member whose key is already in the list is not added.
push_member_unique(members, member) ==
    IF \E i \in 1..Len(members) : members[i].key = member.key
    THEN members
    ELSE push_data(members, member)

push_member(members, member) == push_data(members, member)

\* Variant: the new value is put in front of the list.
push_value_front(values, value_) == <<value_>> \o values

push_value(values, value_) == push_data(values, value_)

\* qsort(members, num_members, ..., json_member_cmp): the members in
\* ascending order of the comparator.  The order of members that compare
\* equal is unspecified: `tie` picks source order or its reverse.
RECURSIVE InsertSorted(_, _)
InsertSorted(sorted, m) ==
    LET Place(c) ==
            IF c < 0 \/ (c = 0 /\ tie = "reverse")
            THEN <<m>> \o sorted
            ELSE <<Head(sorted)>> \o InsertSorted(Tail(sorted), m)
    IN  IF sorted = <<>> THEN <<m>> ELSE Place(json_member_cmp(m, Head(sorted)))

RECURSIVE SortFrom(_, _)
SortFrom(members, sorted) ==
    IF members = <<>> THEN sorted
    ELSE SortFrom(Tail(members), InsertSorted(sorted, Head(members)))

\* Variant: the members left in source order.
qsort_members_skipped(members) == members

qsort_members(members) == SortFrom(members, <<>>)

-----------------------------------------------------------------------------
(* Value parser *)

Value(type, val) == [type |-> type, val |-> val]

Result(v, st) == [ok |-> TRUE, v |-> v, st |-> st]

parse_value_number(f, st) ==
    LET Number(type, num, st1) ==
            Result(Value(type, IF type = "JTYPE_INT" THEN to_long_long(num) ELSE num), st1)
        AfterString(type, s) ==
            IF ~s.ok THEN NullResult(s.st) ELSE Number(type, atof(s.v), s.st)
        AfterDfa(start_pos, d) ==
            IF d.end = -2
            THEN NullResult(print_error(d.st, "Error parsing value num"))
            ELSE AfterString(d.type, get_string_in_range(f, d.st, start_pos, d.end))
    IN  AfterDfa(ftell(st), dfa_number(f, st))

parse_value_string(f, st) ==
    LET AfterString(s) ==
            IF ~s.ok
            THEN NullResult(print_error(s.st, "Error parsing value string"))
            ELSE Result(Value("JTYPE_STRING", s.v), s.st)
    IN  AfterString(get_next_string(f, st))

\* parse_value is entered with the keyword's first letter pushed back, so
\* fgets always reads at least that letter.
parse_value_true(f, st) ==
    LET AfterFgets(r) ==
            IF r.s # T_true THEN NullResult(r.st)
            ELSE Result(Value("JTYPE_TRUE", <<>>), r.st)
    IN  AfterFgets(fgets(f, st, 5))

parse_value_false(f, st) ==
    LET AfterFgets(r) ==
            IF r.s # T_false THEN NullResult(r.st)
            ELSE Result(Value("JTYPE_TRUE", <<>>), r.st)
    IN  AfterFgets(fgets(f, st, 6))

parse_value_null(f, st) ==
    LET AfterFgets(r) ==
            IF r.s # T_null THEN NullResult(r.st)
            ELSE Result(Value("JTYPE_TRUE", <<>>), r.st)
    IN  AfterFgets(fgets(f, st, 5))

RECURSIVE parse_value(_, _), parse_value_object(_, _), parse_value_array(_, _),
          parse_object(_, _), parse_member(_, _), parse_members_from(_, _, _),
          parse_members_from_no_comma(_, _, _),
          parse_array(_, _), parse_values_from(_, _, _)

\* Variant: a failed nested object is stored as an empty one.
parse_value_object_lenient(f, st) ==
    LET AfterObject(o) ==
            IF ~o.ok
            THEN Result(Value("JTYPE_OBJECT", EmptyObject),
                        print_error(o.st, "Error reading value object"))
            ELSE Result(Value("JTYPE_OBJECT", o.v), o.st)
    IN  AfterObject(parse_object(f, st))

parse_value_object(f, st) ==
    LET AfterObject(o) ==
            IF ~o.ok
            THEN NullResult(print_error(o.st, "Error reading value object"))
            ELSE Result(Value("JTYPE_OBJECT", o.v), o.st)
    IN  AfterObject(parse_object(f, st))

\* parse_values with `values` pushed so far: its first statements when
\* there are none (no comma is read before the first value), an iteration
\* of its do-while loop otherwise.
parse_values_from(f, st, values) ==
    LET AfterPeek(values1, p) ==
            IF p.c # Ch.rbracket
            THEN parse_values_from(f, p.st, values1)
            ELSE Result(values1, p.st)
        AfterValue(v) ==
            IF ~v.ok
            THEN NullResult(print_error(v.st, "Error parsing value"))
            ELSE AfterPeek(push_value(values, v.v), peek_next_nonspace(f, v.st))
        AfterComma(g) ==
            IF g.c # Ch.comma
            THEN NullResult(print_error(g.st, "Missing comma between values"))
            ELSE AfterValue(parse_value(f, g.st))
    IN  AfterComma(IF values = <<>> THEN [c |-> Ch.comma, st |-> st]
                   ELSE get_next_nonspace(f, st))

parse_values(f, st) == parse_values_from(f, st, <<>>)

\* Variant: no special case for an immediately closed array.
parse_array_no_empty(f, st) ==
    LET AfterClose(values, g) ==
            IF g.c # Ch.rbracket
            THEN NullResult(print_error(g.st, "Expected ']'"))
            ELSE Result([values |-> values], g.st)
        AfterValues(vs) ==
            IF ~vs.ok
            THEN NullResult(print_error(vs.st, "Error parsing array"))
            ELSE AfterClose(vs.v, get_next_nonspace(f, vs.st))
        AfterOpen(g) ==
            IF g.c = EOF THEN NullResult(print_error(g.st, "Expected '['"))
            ELSE IF g.c # Ch.lbracket
            THEN NullResult(print_error(g.st, IF g.c = Ch.rbracket THEN "Missing ']'"
                                              ELSE "Unexpected character before '['"))
            ELSE AfterValues(parse_values(f, g.st))
    IN  AfterOpen(get_next_nonspace(f, st))

parse_array(f, st) ==
    LET AfterClose(values, g) ==
            IF g.c # Ch.rbracket
            THEN NullResult(print_error(g.st, "Expected ']'"))
            ELSE Result([values |-> values], g.st)
        AfterValues(vs) ==
            IF ~vs.ok
            THEN NullResult(print_error(vs.st, "Error parsing array"))
            ELSE AfterClose(vs.v, get_next_nonspace(f, vs.st))
        AfterPeek(p) ==
            IF p.c = Ch.rbracket
            THEN Result(EmptyArray, getch(f, p.st).st)
            ELSE AfterValues(parse_values(f, p.st))
        AfterOpen(g) ==
            IF g.c = EOF THEN NullResult(print_error(g.st, "Expected '['"))
            ELSE IF g.c # Ch.lbracket
            THEN NullResult(print_error(g.st, IF g.c = Ch.rbracket THEN "Missing ']'"
                                              ELSE "Unexpected character before '['"))
            ELSE AfterPeek(peek_next_nonspace(f, g.st))
    IN  AfterOpen(get_next_nonspace(f, st))

parse_value_array(f, st) ==
    LET AfterArray(a) ==
            IF ~a.ok
            THEN NullResult(print_error(a.st, "Error reading value array"))
            ELSE Result(Value("JTYPE_ARRAY", a.v), a.st)
    IN  AfterArray(parse_array(f, st))

parse_value(f, st) ==
    LET Dispatch(c, st1) ==
            IF c = Ch.lbracket THEN parse_value_array(f, st1)
            ELSE IF c = Ch.lbrace THEN parse_value_object(f, st1)
            ELSE IF c = Ch.minus \/ isdigit(c) THEN parse_value_number(f, st1)
            ELSE IF c = Ch.quote THEN parse_value_string(f, st1)
            ELSE IF c = Ch.t THEN parse_value_true(f, st1)
            ELSE IF c = Ch.f THEN parse_value_false(f, st1)
            ELSE IF c = Ch.n THEN parse_value_null(f, st1)
            ELSE NullResult(print_error(st1, "Invalid value"))
        AfterPeek(p) == Dispatch(p.c, p.st)
    IN  AfterPeek(peek_next_nonspace(f, st))

parse_member(f, st) ==
    LET AfterValue(k, v) ==
            IF ~v.ok
            THEN NullResult(print_error(v.st, "Error reading value"))
            ELSE Result([key |-> k, value |-> v.v], v.st)
        AfterColon(k, g) ==
            IF g.c # Ch.colon
            THEN NullResult(print_error(g.st, "Missing colon"))
            ELSE AfterValue(k, parse_value(f, g.st))
        AfterKey(k) ==
            IF ~k.ok
            THEN NullResult(print_error(k.st, "Error reading key"))
            ELSE AfterColon(k.v, get_next_nonspace(f, k.st))
    IN  AfterKey(get_next_string(f, st))

\* Variant: the comma between two members may be left out.
parse_members_from_no_comma(f, st, members) ==
    LET AfterPeek(members1, p) ==
            IF p.c # Ch.rbrace
            THEN parse_members_from(f, p.st, members1)
            ELSE Result(IF members = <<>> THEN members1 ELSE qsort_members(members1), p.st)
        AfterMember(m) ==
            IF ~m.ok
            THEN NullResult(print_error(m.st, "Error parsing member"))
            ELSE AfterPeek(push_member(members, m.v), peek_next_nonspace(f, m.st))
        AfterComma(p) ==
            AfterMember(parse_member(f, IF p.c = Ch.comma
                                        THEN get_next_nonspace(f, st).st ELSE p.st))
    IN  AfterComma(IF members = <<>> THEN [c |-> Ch.sp, st |-> st]
                   ELSE peek_next_nonspace(f, st))

\* parse_members with `members` pushed so far: its first statements when
\* there are none (no comma is read before the first member, and a single
\* member is returned without the qsort), an iteration of its do-while loop
\* otherwise.
parse_members_from(f, st, members) ==
    LET AfterPeek(members1, p) ==
            IF p.c # Ch.rbrace
            THEN parse_members_from(f, p.st, members1)
            ELSE Result(IF members = <<>> THEN members1 ELSE qsort_members(members1), p.st)
        AfterMember(m) ==
            IF ~m.ok
            THEN NullResult(print_error(m.st, "Error parsing member"))
            ELSE AfterPeek(push_member(members, m.v), peek_next_nonspace(f, m.st))
        AfterComma(g) ==
            IF g.c # Ch.comma
            THEN NullResult(print_error(g.st, "Missing comma between members"))
            ELSE AfterMember(parse_member(f, g.st))
    IN  AfterComma(IF members = <<>> THEN [c |-> Ch.comma, st |-> st]
                   ELSE get_next_nonspace(f, st))

parse_members(f, st) == parse_members_from(f, st, <<>>)

\* Variant: the character that opens the object is not checked.
parse_object_any_open(f, st) ==
    LET AfterClose(members, g) ==
            IF g.c # Ch.rbrace
            THEN NullResult(print_error(g.st, "Expected '}'"))
            ELSE Result([members |-> members], g.st)
        AfterMembers(ms) ==
            IF ~ms.ok
            THEN NullResult(print_error(ms.st, "Error parsing object"))
            ELSE AfterClose(ms.v, get_next_nonspace(f, ms.st))
        AfterPeek(p) ==
            IF p.c = Ch.rbrace
            THEN Result(EmptyObject, getch(f, p.st).st)
            ELSE AfterMembers(parse_members(f, p.st))
        AfterOpen(g) ==
            IF g.c = EOF THEN NullResult(print_error(g.st, "Expected '{'"))
            ELSE AfterPeek(peek_next_nonspace(f, g.st))
    IN  AfterOpen(get_next_nonspace(f, st))

parse_object(f, st) ==
    LET AfterClose(members, g) ==
            IF g.c # Ch.rbrace
            THEN NullResult(print_error(g.st, "Expected '}'"))
            ELSE Result([members |-> members], g.st)
        AfterMembers(ms) ==
            IF ~ms.ok
            THEN NullResult(print_error(ms.st, "Error parsing object"))
            ELSE AfterClose(ms.v, get_next_nonspace(f, ms.st))
        AfterPeek(p) ==
            IF p.c = Ch.rbrace
            THEN Result(EmptyObject, getch(f, p.st).st)
            ELSE AfterMembers(parse_members(f, p.st))
        AfterOpen(g) ==
            IF g.c = EOF THEN NullResult(print_error(g.st, "Expected '{'"))
            ELSE IF g.c # Ch.lbrace
            THEN NullResult(print_error(g.st, IF g.c = Ch.rbrace THEN "Missing '{'"
                                              ELSE "Unexpected character before '{'"))
            ELSE AfterPeek(peek_next_nonspace(f, g.st))
    IN  AfterOpen(get_next_nonspace(f, st))

\* Variant: what follows the root object is not looked at.
json_read_no_rest(f) ==
    LET AfterObject(o) == IF o.ok THEN Result(o.v, o.st) ELSE NullResult(o.st)
    IN  AfterObject(parse_object(f, Stream0))

\* json_read once fopen has succeeded (the file exists and fclose succeeds).
json_read(f) ==
    LET AfterRest(o, g) ==
            IF g.c # EOF
            THEN NullResult(print_error(g.st, "Excess characters"))
            ELSE Result(o.v, g.st)
        AfterObject(o) ==
            IF o.ok THEN AfterRest(o, get_next_nonspace(f, o.st))
            ELSE NullResult(o.st)
    IN  AfterObject(parse_object(f, Stream0))

-----------------------------------------------------------------------------

(* The older revision src/json.c, where it differs from part_000.  A       *)
(* JsonMember of this revision carries, next to key and value, the bytes   *)
(* `bytes` its struct starts with: the address malloc gave its key.        *)

\* fseek back to start_pos, n = end_pos - start_pos, malloc(n),
\* fgets(string, n+1, file), string[n-1] = 0.  size is the size of the
\* buffer; written are the indices stored to: fgets stores the bytes it
\* read and a terminator after them, then comes the store at n-1.  The
\* string the caller sees ends at the first terminator.
get_next_string_json_c(f, st) ==
    LET Shorter(a, b) == IF a < b THEN a ELSE b
        AfterFgets(n, r) ==
            [ok      |-> TRUE,
             v       |-> SubSeq(r.s, 1, Shorter(Len(r.s), n - 1)),
             st      |-> r.st,
             size    |-> n,
             written |-> (0..Len(r.s)) \cup {n - 1}]
        AfterEnd(start_pos, e) ==
            IF e.end = -2
            THEN NullResult(print_error(e.st, "Expected closing quotes"))
            ELSE AfterFgets(e.end - start_pos,
                            fgets(f, fseek(e.st, start_pos), (e.end - start_pos) + 1))
        AfterQuote(g) ==
            IF g.c # Ch.quote
            THEN NullResult(print_error(g.st, "Missing quotes"))
            ELSE AfterEnd(ftell(g.st), get_next_char_pos(f, g.st, Ch.quote))
    IN  AfterQuote(get_next_nonspace(f, st))

\* x and y are slots of the array of JsonMember pointers.  The comparator
\* takes a slot for a JsonMember, so the `key` it hands to strcmp is what
\* the slot holds, the address of the struct, and strcmp compares the
\* bytes the two structs start with.
json_member_cmp_json_c(x, y) == strcmp(x.bytes, y.bytes)

RECURSIVE InsertSorted_json_c(_, _)
InsertSorted_json_c(sorted, m) ==
    LET Place(c) ==
            IF c < 0
            THEN <<m>> \o sorted
            ELSE <<Head(sorted)>> \o InsertSorted_json_c(Tail(sorted), m)
    IN  IF sorted = <<>> THEN <<m>>
        ELSE Place(json_member_cmp_json_c(m, Head(sorted)))

\* qsort(members, num_members, sizeof(JsonMember*), json_member_cmp)
RECURSIVE qsort_members_json_c(_, _)
qsort_members_json_c(members, sorted) ==
    IF members = <<>> THEN sorted
    ELSE qsort_members_json_c(Tail(members), InsertSorted_json_c(sorted, Head(members)))

\* addr is the address of the key, which the struct starts with.
parse_member_json_c(f, st, addr) ==
    LET AfterValue(k, v) ==
            IF ~v.ok
            THEN NullResult(print_error(v.st, "Error reading value"))
            ELSE Result([key |-> k, value |-> v.v, bytes |-> <<addr>>], v.st)
        AfterColon(k, g) ==
            IF g.c # Ch.colon
            THEN NullResult(print_error(g.st, "Missing colon"))
            ELSE AfterValue(k, parse_value(f, g.st))
        AfterKey(k) ==
            IF ~k.ok
            THEN NullResult(print_error(k.st, "Error reading key"))
            ELSE AfterColon(k.v, get_next_nonspace(f, k.st))
    IN  AfterKey(get_next_string_json_c(f, st))

\* parse_members with `members` pushed so far; addrs[i] is the address of
\* the key of the i-th member read.
RECURSIVE parse_members_json_c_from(_, _, _, _)
parse_members_json_c_from(f, st, members, addrs) ==
    LET AfterPeek(members1, p) ==
            IF p.c # Ch.rbrace
            THEN parse_members_json_c_from(f, p.st, members1, addrs)
            ELSE Result(IF members = <<>> THEN members1
                        ELSE qsort_members_json_c(members1, <<>>), p.st)
        AfterMember(m) ==
            IF ~m.ok
            THEN NullResult(print_error(m.st, "Error parsing member"))
            ELSE AfterPeek(push_member(members, m.v), peek_next_nonspace(f, m.st))
        AfterComma(g) ==
            IF g.c # Ch.comma
            THEN NullResult(print_error(g.st, "Missing comma between members"))
            ELSE AfterMember(parse_member_json_c(f, g.st, addrs[Len(members) + 1]))
    IN  AfterComma(IF members = <<>> THEN [c |-> Ch.comma, st |-> st]
                   ELSE get_next_nonspace(f, st))

parse_members_json_c(f, st, addrs) == parse_members_json_c_from(f, st, <<>>, addrs)

-----------------------------------------------------------------------------
(* Query layer (declared in json.h).  A JsonObject* is [null, members], a  *)
(* JsonValue* is [null, type, val].                                        *)

NullObject == [null |-> TRUE, members |-> <<>>]

NullValue == [null |-> TRUE, type |-> "none", val |-> <<>>]

ValuePtr(v) == [null |-> FALSE, type |-> v.type, val |-> v.val]

\* Binary search of `k` among members[lo..hi].
RECURSIVE search_members(_, _, _, _)
search_members(members, k, lo, hi) ==
    IF lo > hi THEN NullValue
    ELSE LET mid == (lo + hi) \div 2
             c   == strcmp(k, members[mid].key)
         IN  IF c = 0 THEN ValuePtr(members[mid].value)
             ELSE IF c < 0 THEN search_members(members, k, lo, mid - 1)
             ELSE search_members(members, k, mid + 1, hi)

json_get_value(obj, k) == search_members(obj.members, k, 1, Len(obj.members))

json_get_type(v) == v.type

json_get_object(v) == [null |-> FALSE, members |-> v.val.members]

json_get_array(v) == v.val

json_array_length(array) == Len(array.values)

json_array_get(array, idx) == ValuePtr(array.values[idx + 1])

-----------------------------------------------------------------------------
(* Printer.  The output is the sequence of bytes written to stdout. *)

\* Variant: the same indentation at every depth.
tab_flat(depth) == <<Ch.sp, Ch.sp>>

RECURSIVE tab(_)
tab(depth) == IF depth <= 0 THEN <<>> ELSE <<Ch.sp, Ch.sp>> \o tab(depth - 1)

\* The decimal digits of the natural number n.
RECURSIVE DigitsOf(_)
DigitsOf(n) ==
    IF n < 10 THEN <<Ch.zero + n>>
    ELSE Append(DigitsOf(n \div 10), Ch.zero + (n % 10))

Abs(n) == IF n < 0 THEN -n ELSE n

\* printf("%lld", n)
format_lld(n) == IF n < 0 THEN <<Ch.minus>> \o DigitsOf(-n) ELSE DigitsOf(n)

\* printf("\"%s\"", s)
format_quoted(s) == <<Ch.quote>> \o s \o <<Ch.quote>>

RECURSIVE Zeros(_)
Zeros(n) == IF n <= 0 THEN <<>> ELSE <<Ch.zero>> \o Zeros(n - 1)

\* atof overflows to HUGE_VAL (infinity) from 1e309 on: DBL_MAX is about
\* 1.8e308.
IsInfinite(d) == d.m # 0 /\ Len(DigitsOf(Abs(d.m))) + d.e > 309

\* printf("%f", num): six digits after the point, "inf" for an infinity.
\* The digits are those of the decimal value, which are the digits printf
\* gives for values below 2^53 with at most six decimals.
format_f(d) ==
    LET Fixed(scaled) ==
            DigitsOf(scaled \div 1000000) \o <<Ch.dot>>
            \o Zeros(6 - Len(DigitsOf(scaled % 1000000))) \o DigitsOf(scaled % 1000000)
        Magnitude(a) ==
            IF d.e >= -6 THEN Fixed(a * Pow10(6 + d.e))
            ELSE Fixed((a + (Pow10(-6 - d.e) \div 2)) \div Pow10(-6 - d.e))
    IN  (IF d.m < 0 THEN <<Ch.minus>> ELSE <<>>)
        \o (IF IsInfinite(d) THEN <<105, 110, 102>> ELSE Magnitude(Abs(d.m)))

RECURSIVE json_value_print(_, _), json_array_print(_, _), json_object_print(_, _),
          print_values_from(_, _, _), print_members_from(_, _, _)

json_value_print(value_, depth) ==
    CASE value_.type = "JTYPE_TRUE"   -> T_true
      [] value_.type = "JTYPE_FALSE"  -> T_false
      [] value_.type = "JTYPE_NULL"   -> T_null
      [] value_.type = "JTYPE_STRING" -> format_quoted(value_.val)
      [] value_.type = "JTYPE_INT"    -> format_lld(value_.val)
      [] value_.type = "JTYPE_FLOAT"  -> format_f(value_.val)
      [] value_.type = "JTYPE_OBJECT" -> json_object_print(value_.val, depth)
      [] value_.type = "JTYPE_ARRAY"  -> json_array_print(value_.val, depth)
      [] OTHER -> <<>>

\* The values from index i on: the first one, then ",\n" before each other.
print_values_from(values, i, depth) ==
    IF i > Len(values) THEN <<>>
    ELSE (IF i > 1 THEN <<Ch.comma, Ch.lf>> ELSE <<>>)
         \o tab(depth + 1)
         \o json_value_print(values[i], depth + 1)
         \o print_values_from(values, i + 1, depth)

json_array_print(array, depth) ==
    IF array.values = <<>> THEN <<Ch.lbracket, Ch.rbracket>>
    ELSE <<Ch.lbracket, Ch.lf>>
         \o print_values_from(array.values, 1, depth)
         \o <<Ch.lf>> \o tab(depth) \o <<Ch.rbracket>>

print_members_from(members, i, depth) ==
    IF i > Len(members) THEN <<>>
    ELSE (IF i > 1 THEN <<Ch.comma, Ch.lf>> ELSE <<>>)
         \o tab(depth + 1)
         \o format_quoted(members[i].key) \o <<Ch.colon, Ch.sp>>
         \o json_value_print(members[i].value, depth + 1)
         \o print_members_from(members, i + 1, depth)

json_object_print(object_, depth) ==
    IF object_.members = <<>> THEN <<Ch.lbrace, Ch.rbrace>>
    ELSE <<Ch.lbrace, Ch.lf>>
         \o print_members_from(object_.members, 1, depth)
         \o <<Ch.lf>> \o tab(depth) \o <<Ch.rbrace>>

\* json_object_print at depth 0, then puts("").
json_print_object(object_) == json_object_print(object_, 0) \o <<Ch.lf>>

-----------------------------------------------------------------------------
(* Ownership.  The blocks a document holds: one per JsonObject, JsonArray, *)
(* JsonMember and JsonValue, one per members or values list, one per key   *)
(* and per string value.                                                   *)

RECURSIVE blocks_of_object(_), blocks_of_array(_), blocks_of_value(_),
          blocks_of_members(_), blocks_of_values(_)
blocks_of_object(obj) == 2 + blocks_of_members(obj.members)

blocks_of_array(array) == 2 + blocks_of_values(array.values)

blocks_of_value(v) ==
    1 + (CASE v.type = "JTYPE_OBJECT" -> blocks_of_object(v.val)
           [] v.type = "JTYPE_ARRAY"  -> blocks_of_array(v.val)
           [] v.type = "JTYPE_STRING" -> 1
           [] OTHER -> 0)

blocks_of_members(members) ==
    IF members = <<>> THEN 0
    ELSE 2 + blocks_of_value(Head(members).value) + blocks_of_members(Tail(members))

blocks_of_values(values) ==
    IF values = <<>> THEN 0
    ELSE blocks_of_value(Head(values)) + blocks_of_values(Tail(values))

\* json_object_destroy(object): the blocks still allocated when it returns.
json_object_destroy(obj, blocks) == blocks

-----------------------------------------------------------------------------
(* Merge (called by test_merge; specified as: the keys of the result are   *)
(* the union of the keys of a and b, b's value wins on a key of both, the  *)
(* inputs are left as they were, the result's members are sorted).         *)

\* The members of `members` whose key json_get_value does not find in obj.
RECURSIVE members_missing_from(_, _)
members_missing_from(members, obj) ==
    IF members = <<>> THEN <<>>
    ELSE LET Kept(found) ==
                 IF found.null
                 THEN <<Head(members)>> \o members_missing_from(Tail(members), obj)
                 ELSE members_missing_from(Tail(members), obj)
         IN  Kept(json_get_value(obj, Head(members).key))

json_merge_objects(a, b) ==
    [null    |-> FALSE,
     members |-> qsort_members(members_missing_from(a.members, b) \o b.members)]

-----------------------------------------------------------------------------
(* Iterator (called by test_iterator; specified as: create(container),     *)
(* get returns the current member or element, or NULL at the end, and      *)
(* increment moves on by one, and not at all at the end).  A JsonIterator  *)
(* is the list it walks, the kind of container, and how far it has got.    *)

NullIterator == [null |-> TRUE, of |-> "none", items |-> <<>>, pos |-> 0]

NullMember == [null |-> TRUE, item |-> <<>>]

json_iterator_create(kind, items) ==
    [null |-> FALSE, of |-> kind, items |-> items, pos |-> 0]

json_iterator_get(iter) ==
    IF iter.pos < Len(iter.items)
    THEN [null |-> FALSE, item |-> iter.items[iter.pos + 1]]
    ELSE NullMember

json_iterator_increment(iter) ==
    IF iter.pos < Len(iter.items) THEN [iter EXCEPT !.pos = @ + 1] ELSE iter

-----------------------------------------------------------------------------
(* Inputs *)

MaxNodes == 4       \* values (containers and scalars) in a generated document
MaxEditNodes == 3   \* values in a document that is then edited
MaxNumLen == 4      \* bytes of a candidate number literal
MaxStrLen == 3      \* bytes between the quotes of a scanned string

Str(k) == <<Ch.quote>> \o k \o <<Ch.quote>>

\* The texts of the JSON values built from at most n values with the given
\* keys and scalars, written without white space.
RECURSIVE ValTexts(_, _, _), ElemLists(_, _, _), MemberLists(_, _, _)
ValTexts(n, keys, leaves) ==
    IF n <= 0 THEN {}
    ELSE leaves
         \cup {<<Ch.lbracket>> \o b \o <<Ch.rbracket>> :
                  b \in {<<>>} \cup ElemLists(n - 1, keys, leaves)}
         \cup {<<Ch.lbrace>> \o b \o <<Ch.rbrace>> :
                  b \in {<<>>} \cup MemberLists(n - 1, keys, leaves)}

ElemLists(n, keys, leaves) ==
    IF n <= 0 THEN {}
    ELSE ValTexts(n, keys, leaves)
         \cup UNION {{a \o <<Ch.comma>> \o b :
                         a \in ValTexts(i, keys, leaves),
                         b \in ElemLists(n - i, keys, leaves)}
                     : i \in 1..(n - 1)}

MemberLists(n, keys, leaves) ==
    IF n <= 0 THEN {}
    ELSE {k \o <<Ch.colon>> \o v : k \in keys, v \in ValTexts(n, keys, leaves)}
         \cup UNION {{k \o <<Ch.colon>> \o a \o <<Ch.comma>> \o b :
                         k \in keys,
                         a \in ValTexts(i, keys, leaves),
                         b \in MemberLists(n - i, keys, leaves)}
                     : i \in 1..(n - 1)}

ObjTexts(n, keys, leaves) ==
    {<<Ch.lbrace>> \o b \o <<Ch.rbrace>> :
        b \in {<<>>} \cup MemberLists(n - 1, keys, leaves)}

\* Well-formed documents: keys "b" and "ab", values 1 and "b".
Docs == ObjTexts(MaxNodes, {Str(<<Ch.b>>), Str(<<Ch.a, Ch.b>>)},
                 {<<49>>, Str(<<Ch.b>>)})

LookupKeys == {<<Ch.a>>, <<Ch.b>>, <<Ch.a, Ch.b>>}

\* Edited documents: a well-formed document (key "b", values true and -1)
\* with one byte deleted, inserted or replaced, or cut short; and texts that
\* are no object at all.
Delete(d, i) == SubSeq(d, 1, i - 1) \o SubSeq(d, i + 1, Len(d))

Insert(d, i, c) == SubSeq(d, 1, i) \o <<c>> \o SubSeq(d, i + 1, Len(d))

Replace(d, i, c) == SubSeq(d, 1, i - 1) \o <<c>> \o SubSeq(d, i + 1, Len(d))

EditChars == {Ch.sp, Ch.lf, Ch.x, Ch.comma, Ch.rbrace}

ReplaceChars == {Ch.x, Ch.lbracket}

EditBase == ObjTexts(MaxEditNodes, {Str(<<Ch.b>>)}, {T_true, <<Ch.minus, 49>>})

EditedOf(base) ==
    UNION {{Delete(d, i) : i \in 1..Len(d)}
           \cup {SubSeq(d, 1, i) : i \in 0..Len(d)}
           \cup {Insert(d, i, c) : i \in 0..Len(d), c \in EditChars}
           \cup {Replace(d, i, c) : i \in 1..Len(d), c \in ReplaceChars}
           : d \in base}

Edited == EditedOf(EditBase)

NotObjects ==
    {<<>>, <<Ch.sp>>, <<Ch.lf, Ch.tab>>}
    \cup ValTexts(2, {Str(<<Ch.b>>)}, {T_true, T_false, T_null, <<Ch.minus, 49>>, Str(<<Ch.b>>)})

EditInputs == Edited \cup NotObjects

\* One member "k" whose value is a candidate scalar.
ScalarPrefix == <<Ch.lbrace>> \o Str(<<Ch.k>>) \o <<Ch.colon>>

NumChars == {Ch.minus, Ch.plus, Ch.dot, Ch.e, Ch.E, 48, 49, 57}

RECURSIVE SeqsUpTo(_, _)
SeqsUpTo(S, n) ==
    IF n = 0 THEN {<<>>}
    ELSE LET shorter == SeqsUpTo(S, n - 1)
         IN  shorter \cup {Append(s, c) : s \in shorter, c \in S}

\* 0, -0, 3, 3.14, 3e10, 3E-10, -3.0e+5, 100, 1e2, 1.0 and 01, 1., .5, -, 1e
NumExamples ==
    {<<48>>, <<45, 48>>, <<51>>, <<51, 46, 49, 52>>, <<51, 101, 49, 48>>,
     <<51, 69, 45, 49, 48>>, <<45, 51, 46, 48, 101, 43, 53>>,
     <<49, 48, 48>>, <<49, 101, 50>>, <<49, 46, 48>>,
     <<48, 49>>, <<49, 46>>, <<46, 53>>, <<45>>, <<49, 101>>}

ScalarTexts == SeqsUpTo(NumChars, MaxNumLen) \cup NumExamples \cup {T_true, T_false, T_null}

ScalarInputs ==
    {ScalarPrefix \o x \o <<Ch.rbrace>> : x \in ScalarTexts}
    \cup {ScalarPrefix \o <<Ch.lbracket>> \o x \o <<Ch.rbracket, Ch.rbrace>> :
             x \in {T_true, T_false, T_null}}

\* A quoted string, possibly after white space, followed by the rest of a member.
StrChars == {Ch.a, Ch.backslash, Ch.lf, Ch.sp}

StringInputs ==
    {lead \o Str(s) \o rest :
        lead \in {<<>>, <<Ch.lf>>},
        s \in SeqsUpTo(StrChars, MaxStrLen),
        rest \in {<<>>, <<Ch.colon, 49>>}}

\* One member "k" whose value is an array of elements of several types.
MaxElems == 3       \* elements of a generated array

ElemTexts ==
    {<<49>>, Str(<<Ch.b>>), T_true, <<Ch.lbracket, Ch.rbracket>>,
     <<Ch.lbrace, Ch.rbrace>>, <<Ch.minus, 49, Ch.dot, 53>>}

RECURSIVE JoinCommas(_)
JoinCommas(elems) ==
    IF elems = <<>> THEN <<>>
    ELSE IF Len(elems) = 1 THEN elems[1]
    ELSE elems[1] \o <<Ch.comma>> \o JoinCommas(Tail(elems))

ArrayInputs ==
    {ScalarPrefix \o <<Ch.lbracket>> \o JoinCommas(elems) \o <<Ch.rbracket, Ch.rbrace>> :
        elems \in SeqsUpTo(ElemTexts, MaxElems)}

\* Documents to print: keys "b" and "ab"; values -1, 1.5, "b", false and
\* 1e999.
MaxPrintNodes == 3  \* values in a document that is then printed

PrintDocs ==
    ObjTexts(MaxPrintNodes, {Str(<<Ch.b>>), Str(<<Ch.a, Ch.b>>)},
             {<<Ch.minus, 49>>, <<49, Ch.dot, 53>>, Str(<<Ch.b>>), T_false,
              <<49, Ch.e, 57, 57, 57>>})

\* Members per merged document.
MaxMergeMembers == 2

MergeKeys == {<<Ch.a>>, <<Ch.b>>, <<99>>}

\* The lists of at most n members with different keys, in every order.
RECURSIVE MemberSeqs(_, _, _)
MemberSeqs(n, keys, vals) ==
    {<<>>} \cup
    (IF n = 0 THEN {}
     ELSE UNION {{<<Str(k) \o <<Ch.colon>> \o v>> \o rest :
                     v \in vals, rest \in MemberSeqs(n - 1, keys \ {k}, vals)} :
                 k \in keys})

MergeDocs(vals) ==
    {<<Ch.lbrace>> \o JoinCommas(ms) \o <<Ch.rbrace>> :
        ms \in MemberSeqs(MaxMergeMembers, MergeKeys, vals)}

\* The first document holds 1 and {"a":1}, the second 3 and {"c":3}.
MergeDocsA == MergeDocs({<<49>>, <<Ch.lbrace>> \o Str(<<Ch.a>>) \o <<Ch.colon, 49, Ch.rbrace>>})

MergeDocsB == MergeDocs({<<51>>, <<Ch.lbrace>> \o Str(<<99>>) \o <<Ch.colon, 51, Ch.rbrace>>})

\* Members per document with repeated keys.
MaxDupMembers == 3

\* Objects of members "a" or "b" with value 1 or 2, keys repeated freely.
DupDocs ==
    {<<Ch.lbrace>> \o JoinCommas(ms) \o <<Ch.rbrace>> :
        ms \in SeqsUpTo({Str(k) \o <<Ch.colon>> \o v :
                            k \in {<<Ch.a>>, <<Ch.b>>}, v \in {<<49>>, <<50>>}},
                        MaxDupMembers)}

\* Values per document read by one of two concurrent calls.
MaxConcNodes == 2

\* Documents for two concurrent calls: well-formed ones, and each of them
\* with a byte appended or its last byte missing.
ConcDocs ==
    UNION {{d, d \o <<Ch.x>>, SubSeq(d, 1, Len(d) - 1)} :
           d \in ObjTexts(MaxConcNodes, {Str(<<Ch.b>>)}, {<<49>>})}

\* Elements per container whose separators are varied.
MaxCommaElems == 2

\* The lists of 1..n elements with a text of `seps` between neighbours.
RECURSIVE Separated(_, _, _)
Separated(n, elems, seps) ==
    IF n <= 0 THEN {}
    ELSE elems \cup {e \o s \o rest : e \in elems, s \in seps,
                                     rest \in Separated(n - 1, elems, seps)}

\* {"k":[...]} and {...} around lead, a separated list, and trail.
CommaDocs(leads, seps, trails) ==
    {ScalarPrefix \o <<Ch.lbracket>> \o l \o b \o t \o <<Ch.rbracket, Ch.rbrace>> :
        l \in leads, t \in trails,
        b \in Separated(MaxCommaElems, {<<49>>, Str(<<Ch.b>>)}, seps)}
    \cup
    {<<Ch.lbrace>> \o l \o b \o t \o <<Ch.rbrace>> :
        l \in leads, t \in trails,
        b \in Separated(MaxCommaElems,
                        {Str(<<Ch.b>>) \o <<Ch.colon, 49>>,
                         Str(<<Ch.a>>) \o <<Ch.colon>> \o Str(<<Ch.b>>)}, seps)}

\* One comma between neighbours, none before the first or after the last.
CommaProper == CommaDocs({<<>>}, {<<Ch.comma>>}, {<<>>})

\* Also: a space for a comma, two commas, a comma first, a comma last.
CommaInputs ==
    CommaDocs({<<>>, <<Ch.comma>>},
              {<<Ch.comma>>, <<Ch.sp>>, <<Ch.comma, Ch.comma>>},
              {<<>>, <<Ch.comma>>})

\* White-space bytes in front of a value.
MaxLead == 1

\* A first byte of every kind, after white space and before some more bytes.
ValueInputs ==
    {ws \o first \o rest :
        ws \in SeqsUpTo({Ch.sp, Ch.lf}, MaxLead),
        first \in {<<>>} \cup {<<c>> : c \in {Ch.lbracket, Ch.lbrace, Ch.minus, 48, 49, 57,
                                           Ch.quote, Ch.t, Ch.f, Ch.n, Ch.x, Ch.comma,
                                           Ch.rbracket, Ch.rbrace, Ch.colon, Ch.plus,
                                           Ch.dot, Ch.e, Ch.a}},
        rest \in {<<>>, <<Ch.rbracket>>, <<Ch.rbrace>>, <<49, Ch.comma>>,
                  <<Ch.b, Ch.quote>>, <<114, 117, 101>>, <<97, 108, 115, 101>>,
                  <<117, 108, 108>>}}

\* Bytes after a quote that may never be closed.
MaxOpenLen == 2

\* An opening quote, at the start of a stream or where a document expects a
\* key or a string value, and a few bytes after it.
OpenQuoteInputs ==
    {before \o <<Ch.quote>> \o after :
        before \in {<<>>, <<Ch.sp>>, <<Ch.lbrace>>,
                    <<Ch.lbrace>> \o Str(<<Ch.b>>) \o <<Ch.colon>>,
                    <<Ch.lbrace>> \o Str(<<Ch.b>>) \o <<Ch.colon, 49, Ch.comma>>,
                    ScalarPrefix \o <<Ch.lbracket>>},
        after \in SeqsUpTo({Ch.a, Ch.sp, Ch.lf, Ch.colon, Ch.rbrace, Ch.backslash, Ch.quote},
                           MaxOpenLen)}

\* Values in a document that is edited and then parsed from every position.
MaxTermNodes == 2

TermInputs ==
    EditedOf(ObjTexts(MaxTermNodes, {Str(<<Ch.b>>)}, {T_true, <<Ch.minus, 49>>}))
    \cup NotObjects

\* Values in a document that gets white space inserted, and bytes inserted.
MaxWsNodes == 2
MaxWsLen == 1

WsBase == ObjTexts(MaxWsNodes, {Str(<<Ch.b>>)}, {<<Ch.minus, 49>>, T_true, Str(<<Ch.a>>)})

\* The places of d between two tokens: not inside a string, and not between
\* two bytes of one number or keyword.
IsWordByte(c) == c \in 48..57 \/ c \in 97..122 \/ c \in {Ch.minus, Ch.plus, Ch.dot, Ch.E}

Gaps(d) ==
    {i \in 0..Len(d) :
        /\ Cardinality({j \in 1..i : d[j] = Ch.quote}) % 2 = 0
        /\ ~(i >= 1 /\ i < Len(d) /\ IsWordByte(d[i]) /\ IsWordByte(d[i + 1]))}

\* d with a run of space, tab, CR, LF put into one of its gaps.
Spaced(d) ==
    {SubSeq(d, 1, i) \o ws \o SubSeq(d, i + 1, Len(d)) :
        i \in Gaps(d),
        ws \in SeqsUpTo({Ch.sp, Ch.tab, Ch.cr, Ch.lf}, MaxWsLen) \ {<<>>}}

\* Members per document read by the src/json.c revision.
MaxOldMembers == 2

OldKeys == {<<Ch.a>>, <<Ch.b>>, <<99>>, <<100>>}

\* What follows the opening brace of an object of one or more members.
OldDocs ==
    {JoinCommas(ms) \o <<Ch.rbrace>> :
        ms \in MemberSeqs(MaxOldMembers, OldKeys, {<<49>>, <<50>>}) \ {<<>>}}

\* The addresses malloc may give the keys of n members: any n different
\* addresses, in any order.
AddrLists(n) ==
    {a \in [1..n -> {16 * i : i \in 1..n}] : \A i, j \in 1..n : a[i] = a[j] => i = j}

-----------------------------------------------------------------------------
(* The client: one json_read, then lookups that walk the tree. *)

NoScan == [ok |-> FALSE, v |-> <<>>, st |-> Stream0]

\* Two calls of json_read not yet entered.  frame[i] holds the automatic
\* variables file (its position) and line_num of the i-th activation.
NoCalls ==
    [pc     |-> <<"start", "start">>,
     frame  |-> <<Stream0, Stream0>>,
     object |-> <<NullResult(Stream0), NullResult(Stream0)>>,
     ret    |-> <<NullObject, NullObject>>]

InitWith(inputs, ties) ==
    /\ file \in inputs
    /\ tie \in ties
    /\ pc = "start"
    /\ object = NullObject
    /\ stream = Stream0
    /\ cur = NullObject
    /\ key = <<>>
    /\ value = NullValue
    /\ scan = NoScan
    /\ index = 0
    /\ printed = <<>>
    /\ reread = NullObject
    /\ file2 = <<>>
    /\ other = NullObject
    /\ merged = NullObject
    /\ it = NullIterator
    /\ current = NullMember
    /\ visited = <<>>
    /\ owned = 0
    /\ calls = NoCalls

JsonRead ==
    /\ pc = "start"
    /\ LET Returned(r) ==
               /\ object' = IF r.ok THEN [null |-> FALSE, members |-> r.v.members]
                            ELSE NullObject
               /\ stream' = r.st
       IN  Returned(json_read(file))
    /\ cur' = object'
    /\ owned' = IF object'.null THEN 0 ELSE blocks_of_object(object')
    /\ pc' = "read"
    /\ UNCHANGED <<file, tie, key, value, scan, index>>
    /\ UNCHANGED <<printVars, mergeVars, iterVars>>
    /\ UNCHANGED concVars

JsonGetValue(k) ==
    /\ pc \in {"read", "object"}
    /\ ~cur.null
    /\ key' = k
    /\ value' = json_get_value(cur, k)
    /\ pc' = "got"
    /\ UNCHANGED <<file, tie, object, stream, cur, scan, index>>
    /\ UNCHANGED ext

JsonGetObject ==
    /\ pc \in {"got", "elem"}
    /\ ~value.null
    /\ json_get_type(value) = "JTYPE_OBJECT"
    /\ cur' = json_get_object(value)
    /\ pc' = "object"
    /\ UNCHANGED <<file, tie, object, stream, key, value, scan, index>>
    /\ UNCHANGED ext

JsonArrayGet(idx) ==
    /\ pc \in {"got", "elem"}
    /\ ~value.null
    /\ json_get_type(value) = "JTYPE_ARRAY"
    /\ idx < json_array_length(json_get_array(value))
    /\ value' = json_array_get(json_get_array(value), idx)
    /\ index' = idx
    /\ pc' = "elem"
    /\ UNCHANGED <<file, tie, object, stream, cur, key, scan>>
    /\ UNCHANGED ext

\* The string scan on its own, from the start of the stream.
GetNextString ==
    /\ pc = "start"
    /\ scan' = get_next_string(file, Stream0)
    /\ pc' = "scanned"
    /\ UNCHANGED <<file, tie, object, stream, cur, key, value, index>>
    /\ UNCHANGED ext

JsonPrintObject ==
    /\ pc = "read"
    /\ ~object.null
    /\ printed' = json_print_object(object)
    /\ pc' = "printed"
    /\ UNCHANGED <<file, tie, object, stream, cur, key, value, scan, index, reread>>
    /\ UNCHANGED <<mergeVars, iterVars, heapVars>>
    /\ UNCHANGED concVars

\* json_read of a file that holds what was printed.
JsonReadPrinted ==
    /\ pc = "printed"
    /\ LET Returned(r) ==
               reread' = IF r.ok THEN [null |-> FALSE, members |-> r.v.members]
                         ELSE NullObject
       IN  Returned(json_read(printed))
    /\ pc' = "reread"
    /\ UNCHANGED <<file, tie, object, stream, cur, key, value, scan, index, printed>>
    /\ UNCHANGED <<mergeVars, iterVars, heapVars>>
    /\ UNCHANGED concVars

\* Well-formed documents, read and walked.
Init == InitWith(Docs, {"source", "reverse"})

Next ==
    \/ JsonRead
    \/ \E k \in LookupKeys : JsonGetValue(k)
    \/ JsonGetObject
    \/ \E idx \in 0..(MaxNodes - 1) : JsonArrayGet(idx)

Spec == Init /\ [][Next]_vars

\* Edited documents, read.
InitEdit == InitWith(EditInputs, {"source"})

NextEdit == JsonRead

SpecEdit == InitEdit /\ [][NextEdit]_vars

\* One scalar member, read and looked up.
InitScalar == InitWith(ScalarInputs, {"source"})

NextScalar ==
    \/ JsonRead
    \/ JsonGetValue(<<Ch.k>>)
    \/ JsonArrayGet(0)

SpecScalar == InitScalar /\ [][NextScalar]_vars

\* Quoted strings, scanned.
InitString == InitWith(StringInputs, {"source"})

NextString == GetNextString

SpecString == InitString /\ [][NextString]_vars

\* One array member, read, looked up and indexed.
InitArray == InitWith(ArrayInputs, {"source"})

NextArray ==
    \/ JsonRead
    \/ JsonGetValue(<<Ch.k>>)
    \/ \E idx \in 0..(MaxElems - 1) : JsonArrayGet(idx)

SpecArray == InitArray /\ [][NextArray]_vars

\* Documents read, printed, and read again from what was printed.
InitPrint == InitWith(PrintDocs, {"source", "reverse"})

NextPrint ==
    \/ JsonRead
    \/ JsonPrintObject
    \/ JsonReadPrinted

SpecPrint == InitPrint /\ [][NextPrint]_vars

\* json_read of the second file.
JsonReadOther ==
    /\ pc = "read"
    /\ LET Returned(r) ==
               other' = IF r.ok THEN [null |-> FALSE, members |-> r.v.members]
                        ELSE NullObject
       IN  Returned(json_read(file2))
    /\ pc' = "read2"
    /\ UNCHANGED <<file, tie, object, stream, cur, key, value, scan, index>>
    /\ UNCHANGED <<printVars, file2, merged, iterVars, heapVars>>
    /\ UNCHANGED concVars

JsonMergeObjects ==
    /\ pc = "read2"
    /\ ~object.null
    /\ ~other.null
    /\ merged' = json_merge_objects(object, other)
    /\ pc' = "merged"
    /\ UNCHANGED <<file, tie, object, stream, cur, key, value, scan, index>>
    /\ UNCHANGED <<printVars, file2, other, iterVars, heapVars>>
    /\ UNCHANGED concVars

\* Two documents read and merged.
InitMerge ==
    /\ file \in MergeDocsA
    /\ tie \in {"source"}
    /\ pc = "start"
    /\ object = NullObject
    /\ stream = Stream0
    /\ cur = NullObject
    /\ key = <<>>
    /\ value = NullValue
    /\ scan = NoScan
    /\ index = 0
    /\ printed = <<>>
    /\ reread = NullObject
    /\ file2 \in MergeDocsB
    /\ other = NullObject
    /\ merged = NullObject
    /\ it = NullIterator
    /\ current = NullMember
    /\ visited = <<>>
    /\ owned = 0
    /\ calls = NoCalls

NextMerge ==
    \/ JsonRead
    \/ JsonReadOther
    \/ JsonMergeObjects

SpecMerge == InitMerge /\ [][NextMerge]_vars

JsonIteratorCreate ==
    /\ pc = "read"
    /\ ~object.null
    /\ it' = json_iterator_create("object", object.members)
    /\ pc' = "iter"
    /\ UNCHANGED <<file, tie, object, stream, cur, key, value, scan, index>>
    /\ UNCHANGED <<printVars, mergeVars, current, visited, heapVars>>
    /\ UNCHANGED concVars

JsonIteratorCreateArray ==
    /\ pc = "got"
    /\ ~value.null
    /\ json_get_type(value) = "JTYPE_ARRAY"
    /\ it' = json_iterator_create("array", json_get_array(value).values)
    /\ pc' = "iter"
    /\ UNCHANGED <<file, tie, object, stream, cur, key, value, scan, index>>
    /\ UNCHANGED <<printVars, mergeVars, current, visited, heapVars>>
    /\ UNCHANGED concVars

\* json_iterator_get: the loop test of test_iterator and the fetch in its body.
JsonIteratorGet ==
    /\ pc \in {"iter", "past"}
    /\ current' = json_iterator_get(it)
    /\ pc' = IF current'.null THEN "end" ELSE "at"
    /\ UNCHANGED <<file, tie, object, stream, cur, key, value, scan, index>>
    /\ UNCHANGED <<printVars, mergeVars, it, visited, heapVars>>
    /\ UNCHANGED concVars

\* json_iterator_increment, after the member was used or after the end was seen.
JsonIteratorIncrement ==
    /\ pc \in {"at", "end"}
    /\ it' = json_iterator_increment(it)
    /\ visited' = IF current.null THEN visited ELSE Append(visited, current.item)
    /\ pc' = IF current.null THEN "past" ELSE "iter"
    /\ UNCHANGED <<file, tie, object, stream, cur, key, value, scan, index>>
    /\ UNCHANGED <<printVars, mergeVars, current, heapVars>>
    /\ UNCHANGED concVars

\* A document read and its root object, or the array under "k", iterated.
InitIter == InitWith(MergeDocsA \cup ArrayInputs, {"source"})

NextIter ==
    \/ JsonRead
    \/ JsonGetValue(<<Ch.k>>)
    \/ JsonIteratorCreate
    \/ JsonIteratorCreateArray
    \/ JsonIteratorGet
    \/ JsonIteratorIncrement

SpecIter == InitIter /\ [][NextIter]_vars

JsonObjectDestroy ==
    /\ pc = "read"
    /\ owned' = json_object_destroy(object, owned)
    /\ pc' = "destroyed"
    /\ UNCHANGED <<file, tie, object, stream, cur, key, value, scan, index>>
    /\ UNCHANGED <<printVars, mergeVars, iterVars>>
    /\ UNCHANGED concVars

\* A document read and released.
InitDestroy == InitWith(Docs \cup NotObjects, {"source"})

NextDestroy ==
    \/ JsonRead
    \/ JsonObjectDestroy

SpecDestroy == InitDestroy /\ [][NextDestroy]_vars

\* Documents with repeated keys, read.
InitDup == InitWith(DupDocs, {"source", "reverse"})

NextDup == JsonRead

SpecDup == InitDup /\ [][NextDup]_vars

\* The file the c-th call reads.
PathOf(c) == IF c = 1 THEN file ELSE file2

\* Variant: file and line_num are static, one copy for every call.
frame_shared(c) == 1

\* file and line_num are automatic variables of json_read: one copy per call.
frame_of(c) == c

\* FILE* file = fopen(path, "r"); int line_num = 1;
CallOpen(c) ==
    /\ calls.pc[c] = "start"
    /\ calls' = [calls EXCEPT !.pc[c] = "opened", !.frame[frame_of(c)] = Stream0]
    /\ UNCHANGED <<file, tie, pc, object, stream, cur, key, value, scan, index>>
    /\ UNCHANGED <<printVars, mergeVars, iterVars, heapVars>>

\* JsonObject* object = parse_object(file, &line_num);
CallParseObject(c) ==
    /\ calls.pc[c] = "opened"
    /\ LET Parsed(r) ==
               calls' = [calls EXCEPT !.pc[c] = "parsed",
                                      !.frame[frame_of(c)] = r.st,
                                      !.object[c] = r]
       IN  Parsed(parse_object(PathOf(c), calls.frame[frame_of(c)]))
    /\ UNCHANGED <<file, tie, pc, object, stream, cur, key, value, scan, index>>
    /\ UNCHANGED <<printVars, mergeVars, iterVars, heapVars>>

\* if (object != NULL && get_next_nonspace(file, &line_num) != EOF) ...
CallCheckRest(c) ==
    /\ calls.pc[c] = "parsed"
    /\ LET Checked(g) ==
               IF g.c # EOF
               THEN calls' = [calls EXCEPT
                                 !.pc[c] = "checked",
                                 !.frame[frame_of(c)] = print_error(g.st, "Excess characters"),
                                 !.object[c] = NullResult(g.st)]
               ELSE calls' = [calls EXCEPT !.pc[c] = "checked",
                                           !.frame[frame_of(c)] = g.st]
       IN  IF calls.object[c].ok
           THEN Checked(get_next_nonspace(PathOf(c), calls.frame[frame_of(c)]))
           ELSE calls' = [calls EXCEPT !.pc[c] = "checked"]
    /\ UNCHANGED <<file, tie, pc, object, stream, cur, key, value, scan, index>>
    /\ UNCHANGED <<printVars, mergeVars, iterVars, heapVars>>

\* fclose(file); return object;
CallReturn(c) ==
    /\ calls.pc[c] = "checked"
    /\ calls' = [calls EXCEPT
                    !.pc[c] = "returned",
                    !.ret[c] = IF calls.object[c].ok
                               THEN [null |-> FALSE, members |-> calls.object[c].v.members]
                               ELSE NullObject]
    /\ UNCHANGED <<file, tie, pc, object, stream, cur, key, value, scan, index>>
    /\ UNCHANGED <<printVars, mergeVars, iterVars, heapVars>>

\* Two calls of json_read on two files, their statements interleaved.
InitConc ==
    /\ file \in ConcDocs
    /\ tie \in {"source"}
    /\ pc = "start"
    /\ object = NullObject
    /\ stream = Stream0
    /\ cur = NullObject
    /\ key = <<>>
    /\ value = NullValue
    /\ scan = NoScan
    /\ index = 0
    /\ printed = <<>>
    /\ reread = NullObject
    /\ file2 \in ConcDocs
    /\ other = NullObject
    /\ merged = NullObject
    /\ it = NullIterator
    /\ current = NullMember
    /\ visited = <<>>
    /\ owned = 0
    /\ calls = NoCalls

NextConc ==
    \E c \in 1..2 :
        \/ CallOpen(c)
        \/ CallParseObject(c)
        \/ CallCheckRest(c)
        \/ CallReturn(c)

SpecConc == InitConc /\ [][NextConc]_vars

\* dfa_number on a stream positioned at the first byte of the file.
DfaNumber ==
    /\ pc = "start"
    /\ scan' = dfa_number(file, Stream0)
    /\ pc' = "number"
    /\ UNCHANGED <<file, tie, object, stream, cur, key, value, index>>
    /\ UNCHANGED ext

\* Candidate number literals, each the whole of a stream.
InitNumber == InitWith(SeqsUpTo(NumChars, MaxNumLen) \cup NumExamples, {"source"})

NextNumber == DfaNumber

SpecNumber == InitNumber /\ [][NextNumber]_vars

\* Containers with their commas varied, read.
InitComma == InitWith(CommaInputs, {"source"})

NextComma == JsonRead

SpecComma == InitComma /\ [][NextComma]_vars

\* parse_value on a stream positioned at the first byte of the file.
ParseValue ==
    /\ pc = "start"
    /\ scan' = parse_value(file, Stream0)
    /\ pc' = "value"
    /\ UNCHANGED <<file, tie, object, stream, cur, key, value, index>>
    /\ UNCHANGED ext

\* A value, or something that is none, parsed on its own.
InitValue == InitWith(ValueInputs, {"source"})

NextValue == ParseValue

SpecValue == InitValue /\ [][NextValue]_vars

\* Streams with a quote that may never be closed, scanned as a string and
\* read as a document.
InitOpenQuote == InitWith(OpenQuoteInputs, {"source"})

NextOpenQuote ==
    \/ GetNextString
    \/ JsonRead

SpecOpenQuote == InitOpenQuote /\ [][NextOpenQuote]_vars

\* Edited documents, read, with every position of each a place to parse from.
InitTerm == InitWith(TermInputs, {"source"})

NextTerm == JsonRead

SpecTerm == InitTerm /\ [][NextTerm]_vars

\* A document with white space put between two of its tokens, and the
\* document without it, both read.
InitSpaced ==
    /\ file2 \in WsBase
    /\ file \in Spaced(file2)
    /\ tie \in {"source"}
    /\ pc = "start"
    /\ object = NullObject
    /\ stream = Stream0
    /\ cur = NullObject
    /\ key = <<>>
    /\ value = NullValue
    /\ scan = NoScan
    /\ index = 0
    /\ printed = <<>>
    /\ reread = NullObject
    /\ other = NullObject
    /\ merged = NullObject
    /\ it = NullIterator
    /\ current = NullMember
    /\ visited = <<>>
    /\ owned = 0
    /\ calls = NoCalls

NextSpaced ==
    \/ JsonRead
    \/ JsonReadOther

SpecSpaced == InitSpaced /\ [][NextSpaced]_vars

\* parse_members of the src/json.c revision, on a stream that stands after
\* the opening brace; malloc places the keys.
ParseMembersJsonC ==
    /\ pc = "start"
    /\ \E addrs \in AddrLists(MaxOldMembers) :
           scan' = parse_members_json_c(file, Stream0, addrs)
    /\ pc' = "members"
    /\ UNCHANGED <<file, tie, object, stream, cur, key, value, index>>
    /\ UNCHANGED ext

InitOld == InitWith(OldDocs, {"source"})

NextOld == ParseMembersJsonC

SpecOld == InitOld /\ [][NextOld]_vars

\* get_next_string of the src/json.c revision, from the start of the stream.
GetNextStringJsonC ==
    /\ pc = "start"
    /\ scan' = get_next_string_json_c(file, Stream0)
    /\ pc' = "scanned"
    /\ UNCHANGED <<file, tie, object, stream, cur, key, value, index>>
    /\ UNCHANGED ext

InitStringOld == InitWith(StringInputs, {"source"})

NextStringOld == GetNextStringJsonC

SpecStringOld == InitStringOld /\ [][NextStringOld]_vars

-----------------------------------------------------------------------------
(* Properties *)

\* k1 <= k2 in the byte-wise order of strings.
KeyLeq(k1, k2) ==
    \/ Len(k1) <= Len(k2) /\ \A i \in 1..Len(k1) : k1[i] = k2[i]
    \/ \E i \in 1..Len(k1) :
          /\ i <= Len(k2)
          /\ k1[i] < k2[i]
          /\ \A j \in 1..(i - 1) : k1[j] = k2[j]

KeysAscending(members) ==
    \A i \in 1..(Len(members) - 1) : KeyLeq(members[i].key, members[i + 1].key)

\* Every object at or under the value v has its keys ascending.
RECURSIVE SortedIn(_)
SortedIn(v) ==
    IF v.type = "JTYPE_OBJECT"
    THEN /\ KeysAscending(v.val.members)
         /\ \A i \in 1..Len(v.val.members) : SortedIn(v.val.members[i].value)
    ELSE IF v.type = "JTYPE_ARRAY"
    THEN \A i \in 1..Len(v.val.values) : SortedIn(v.val.values[i])
    ELSE TRUE

RootValue == Value("JTYPE_OBJECT", [members |-> object.members])

\* C1: after a successful json_read every object of the returned tree, the
\* root and every nested object at any depth, has its members in ascending
\* byte-wise order of key, and so has every object the client obtains from it.
C1_MembersSorted ==
    /\ ~object.null => SortedIn(RootValue)
    /\ ~cur.null => KeysAscending(cur.members)

\* {"b":{"b":1,"ab":1}} was read: the nested object's members were written in
\* descending order of key and are stored in ascending order.
C1_Witness ==
    /\ pc = "read"
    /\ ~object.null
    /\ file = <<123, 34, 98, 34, 58, 123, 34, 98, 34, 58, 49, 44,
                34, 97, 98, 34, 58, 49, 125, 125>>
    /\ Len(object.members) = 1
    /\ object.members[1].value.type = "JTYPE_OBJECT"
    /\ Len(object.members[1].value.val.members) = 2
    /\ object.members[1].value.val.members[1].key = <<Ch.a, Ch.b>>

DistinctKeys(members) ==
    \A i, j \in 1..Len(members) : i # j => members[i].key # members[j].key

HasKey(members, k) == \E i \in 1..Len(members) : members[i].key = k

\* C2: for an object of a successful parse whose keys are pairwise distinct
\* and any key k, json_get_value returns non-NULL iff k is the key of a
\* member, and then it returns that member's value.
C2_LookupFindsPresentKeys ==
    (pc = "got" /\ DistinctKeys(cur.members)) =>
        IF HasKey(cur.members, key)
        THEN /\ ~value.null
             /\ \E i \in 1..Len(cur.members) :
                   /\ cur.members[i].key = key
                   /\ value = ValuePtr(cur.members[i].value)
        ELSE value.null

\* "b" was looked up in a nested object with two distinct keys and found.
C2_Witness ==
    /\ pc = "got"
    /\ cur # object
    /\ Len(cur.members) = 2
    /\ DistinctKeys(cur.members)
    /\ key = <<Ch.b>>
    /\ ~value.null

\* The text {"b": that opens an object with the member "b".
ScalarPrefixB == <<Ch.lbrace>> \o Str(<<Ch.b>>) \o <<Ch.colon>>

Printed(message) == \E i \in 1..Len(stream.out) : stream.out[i].msg = message

\* C3: if any step of the parse failed, at any depth, json_read returns NULL.
\* Every failing step prints a diagnostic or returns NULL to a caller that
\* prints one, so a step has failed exactly when something was printed.
C3_FailureReturnsNull ==
    (pc = "read" /\ stream.out # <<>>) => object.null

\* A keyword two levels down failed after the text before it was parsed, and
\* the failure went up through the nested object to json_read.
C3_Witness ==
    /\ pc = "read"
    /\ object.null
    /\ Printed("Error reading value")
    /\ Printed("Error reading value object")
    /\ Len(stream.out) >= 6

NonSpaces(f) == {i \in 1..Len(f) : ~isspace(f[i])}

\* The first byte of f that is not white space, EOF if there is none.
FirstNonSpace(f) ==
    IF NonSpaces(f) = {} THEN EOF
    ELSE f[CHOOSE i \in NonSpaces(f) : \A j \in NonSpaces(f) : i <= j]

\* C4: json_read succeeds only if the first non-whitespace character of the
\* input is '{'; every other input, the empty and the all-whitespace one
\* included, is rejected.
C4_RootMustBeObject ==
    (pc = "read" /\ FirstNonSpace(file) # Ch.lbrace) => object.null

\* A well-formed array at the root was rejected.
C4_Witness ==
    /\ pc = "read"
    /\ FirstNonSpace(file) = Ch.lbracket
    /\ file[Len(file)] = Ch.rbracket
    /\ object.null
    /\ Printed("Unexpected character before '{'")

\* C5: when the root object parses, json_read returns NULL if a
\* non-whitespace character follows its closing '}', and the object if only
\* white space follows up to the end of the input.
C5_TrailingContentRejected ==
    LET Rest(from) == {i \in (from + 1)..Len(file) : ~isspace(file[i])}
        AfterRoot(o) == o.ok => (object.null <=> Rest(o.st.pos) # {})
    IN  pc = "read" => AfterRoot(parse_object(file, Stream0))

\* A root object with a member was parsed and ',' after it made json_read
\* return NULL.
C5_Witness ==
    LET AfterRoot(o) == o.ok /\ o.v.members # <<>> /\ o.st.pos = Len(file) - 1
    IN  /\ pc = "read"
        /\ object.null
        /\ file # <<>>
        /\ file[Len(file)] = Ch.comma
        /\ AfterRoot(parse_object(file, Stream0))

IsSpaces(s) == \A i \in 1..Len(s) : isspace(s[i])

\* f is `open`, white space or nothing, `close`.
Encloses(f, open, close) ==
    /\ Len(f) >= Len(open) + Len(close)
    /\ SubSeq(f, 1, Len(open)) = open
    /\ SubSeq(f, Len(f) - Len(close) + 1, Len(f)) = close
    /\ IsSpaces(SubSeq(f, Len(open) + 1, Len(f) - Len(close)))

\* C10: an immediately closed container, with or without white space between
\* the brackets, parses as a container with no elements: {} is an object
\* with no members, [] an array with no values.
C10_EmptyContainers ==
    /\ (pc = "read" /\ Encloses(file, <<Ch.lbrace>>, <<Ch.rbrace>>)) =>
           ~object.null /\ object.members = <<>>
    /\ (pc = "read" /\ Encloses(file, ScalarPrefixB \o <<Ch.lbracket>>,
                                 <<Ch.rbracket, Ch.rbrace>>)) =>
           /\ ~object.null
           /\ Len(object.members) = 1
           /\ object.members[1].value = Value("JTYPE_ARRAY", EmptyArray)
    /\ (pc = "read" /\ Encloses(file, ScalarPrefixB \o <<Ch.lbrace>>,
                                 <<Ch.rbrace, Ch.rbrace>>)) =>
           /\ ~object.null
           /\ Len(object.members) = 1
           /\ object.members[1].value = Value("JTYPE_OBJECT", EmptyObject)

\* {"b":[ ]} was read: the member's value is an array with no values.
C10_Witness ==
    /\ pc = "read"
    /\ file = ScalarPrefixB \o <<Ch.lbracket, Ch.sp, Ch.rbracket, Ch.rbrace>>
    /\ ~object.null
    /\ object.members[1].value = Value("JTYPE_ARRAY", EmptyArray)

\* The text between {"k": and the closing '}' of a one-member document.
Literal(f) == SubSeq(f, Len(ScalarPrefix) + 1, Len(f) - 1)

NumAlphabet == {Ch.minus, Ch.plus, Ch.dot, Ch.e, Ch.E} \cup (48..57)

OverNumAlphabet(s) == \A i \in 1..Len(s) : s[i] \in NumAlphabet

Digits(s) == s # <<>> /\ \A i \in 1..Len(s) : s[i] \in 48..57

\* -?(0|[1-9][0-9]*)(.[0-9]+)?([eE][+-]?[0-9]+)? with a literal point.
IntegerPart(s) == s = <<48>> \/ (Digits(s) /\ s[1] # 48)

FractionPart(s) == s = <<>> \/ (s[1] = Ch.dot /\ Digits(Tail(s)))

ExponentPart(s) ==
    \/ s = <<>>
    \/ /\ s[1] \in {Ch.e, Ch.E}
       /\ \/ Digits(Tail(s))
          \/ Len(s) >= 2 /\ s[2] \in {Ch.plus, Ch.minus} /\ Digits(SubSeq(s, 3, Len(s)))

IsJsonNumber(s) ==
    \E m \in 0..1 :
        /\ m = 1 => (s # <<>> /\ s[1] = Ch.minus)
        /\ \E i \in m..Len(s) : \E j \in i..Len(s) :
              /\ IntegerPart(SubSeq(s, m + 1, i))
              /\ FractionPart(SubSeq(s, i + 1, j))
              /\ ExponentPart(SubSeq(s, j + 1, Len(s)))

\* C6: for every string N over {'-', '+', '.', 'e', 'E', '0'..'9'} (up to
\* the bounded length), json_read of {"k":N} succeeds iff N matches the
\* JSON number grammar.
C6_NumberGrammar ==
    (pc = "read" /\ OverNumAlphabet(Literal(file))) =>
        (~object.null <=> IsJsonNumber(Literal(file)))

\* {"k":-3.0e+5} was read and accepted.
C6_Witness ==
    /\ pc = "read"
    /\ Literal(file) = <<45, 51, 46, 48, 101, 43, 53>>
    /\ ~object.null
    /\ Len(object.members) = 1

HasPointOrExponent(s) == \E i \in 1..Len(s) : s[i] \in {Ch.dot, Ch.e, Ch.E}

\* C7: a successfully parsed number is tagged Int iff its literal has none
\* of '.', 'e', 'E', and Float otherwise, whatever its numeric value.
C7_IntIffPureInteger ==
    (pc = "got" /\ ~value.null /\ OverNumAlphabet(Literal(file))) =>
        value.type = IF HasPointOrExponent(Literal(file))
                     THEN "JTYPE_FLOAT" ELSE "JTYPE_INT"

\* {"k":1e2} was read and "k" looked up: the value is a Float although it
\* is the number 100.
C7_Witness ==
    /\ pc = "got"
    /\ Literal(file) = <<49, 101, 50>>
    /\ ~value.null
    /\ value.type = "JTYPE_FLOAT"
    /\ value.val = [m |-> 1, e |-> 2]

Keywords ==
    {[text |-> T_true,  tag |-> "JTYPE_TRUE"],
     [text |-> T_false, tag |-> "JTYPE_FALSE"],
     [text |-> T_null,  tag |-> "JTYPE_NULL"]}

\* C8: a member value or an array element written true, false or null
\* parses to a value of tag JTYPE_TRUE, JTYPE_FALSE or JTYPE_NULL.
C8_KeywordTags ==
    \A kw \in Keywords :
        /\ (pc = "got" /\ Literal(file) = kw.text) =>
               ~value.null /\ value.type = kw.tag
        /\ (pc = "elem" /\ Literal(file) = <<Ch.lbracket>> \o kw.text \o <<Ch.rbracket>>) =>
               ~value.null /\ value.type = kw.tag

Quotes(f) == {i \in 1..Len(f) : f[i] = Ch.quote}

\* The index in f of the first quote after index `from`.
NextQuote(f, from) ==
    CHOOSE i \in Quotes(f) : i > from /\ \A j \in Quotes(f) : j > from => i <= j

\* C9: when the first non-whitespace byte is '"' and another '"' follows,
\* get_next_string returns exactly the bytes between the opening quote and
\* the first '"' after it, whatever they are, and leaves the stream right
\* after that closing quote.
C9_StringScanExact ==
    LET Between(open, close) ==
            /\ scan.ok
            /\ scan.v = SubSeq(file, open + 1, close - 1)
            /\ scan.st.pos = close
        From(open) == Between(open, NextQuote(file, open))
    IN  (/\ pc = "scanned"
         /\ FirstNonSpace(file) = Ch.quote
         /\ Cardinality(Quotes(file)) >= 2) => From(NextQuote(file, 0))

\* The texts between the commas of s.
RECURSIVE SplitCommas(_, _)
SplitCommas(s, acc) ==
    IF s = <<>> THEN <<acc>>
    ELSE IF Head(s) = Ch.comma THEN <<acc>> \o SplitCommas(Tail(s), <<>>)
    ELSE SplitCommas(Tail(s), Append(acc, Head(s)))

\* The element texts of the array literal in {"k":[...]}.
ElementsWritten(f) ==
    LET Body(b) == IF b = <<>> THEN <<>> ELSE SplitCommas(b, <<>>)
    IN  Body(SubSeq(f, Len(ScalarPrefix) + 2, Len(f) - 2))

\* The value each element text denotes.
Denotes(text) ==
    CASE text = <<49>> -> Value("JTYPE_INT", 1)
      [] text = Str(<<Ch.b>>) -> Value("JTYPE_STRING", <<Ch.b>>)
      [] text = T_true -> Value("JTYPE_TRUE", <<>>)
      [] text = <<Ch.lbracket, Ch.rbracket>> -> Value("JTYPE_ARRAY", [values |-> <<>>])
      [] text = <<Ch.lbrace, Ch.rbrace>> -> Value("JTYPE_OBJECT", [members |-> <<>>])
      [] text = <<Ch.minus, 49, Ch.dot, 53>> -> Value("JTYPE_FLOAT", [m |-> -15, e |-> -1])

\* C11: the elements of a parsed array are stored in source order: for an
\* array literal with n elements json_array_length is n and
\* json_array_get(array, i) is the i-th element as written, whatever the
\* elements' types.
C11_ArrayKeepsSourceOrder ==
    /\ pc = "got" =>
           /\ ~value.null
           /\ json_get_type(value) = "JTYPE_ARRAY"
           /\ json_array_length(json_get_array(value)) = Len(ElementsWritten(file))
    /\ pc = "elem" =>
           /\ index < Len(ElementsWritten(file))
           /\ value = ValuePtr(Denotes(ElementsWritten(file)[index + 1]))

\* The third element of [1,"b",-1.5] was fetched.
C11_Witness ==
    /\ pc = "elem"
    /\ Len(ElementsWritten(file)) = 3
    /\ ElementsWritten(file)[1] = <<49>>
    /\ ElementsWritten(file)[2] = Str(<<Ch.b>>)
    /\ index = 2
    /\ value = ValuePtr(Value("JTYPE_FLOAT", [m |-> -15, e |-> -1]))

Newlines(f, n) == Cardinality({i \in 1..n : f[i] = Ch.lf})

\* C13: at every point of a parse, and so where json_read stops reading (the
\* point at which every diagnostic of a failed parse is printed), the line
\* counter is 1 plus the number of '\n' between the start of the input and
\* the stream position.
C13_LineCountsNewlines ==
    pc = "read" => stream.line = 1 + Newlines(file, stream.pos)

\* v and w have the same type tag at every node, the same keys in the same
\* order, the same array order, the same strings and the same integers.
RECURSIVE SameTree(_, _)
SameTree(v, w) ==
    /\ v.type = w.type
    /\ CASE v.type = "JTYPE_OBJECT" ->
                /\ Len(v.val.members) = Len(w.val.members)
                /\ \A i \in 1..Len(v.val.members) :
                      /\ v.val.members[i].key = w.val.members[i].key
                      /\ SameTree(v.val.members[i].value, w.val.members[i].value)
         [] v.type = "JTYPE_ARRAY" ->
                /\ Len(v.val.values) = Len(w.val.values)
                /\ \A i \in 1..Len(v.val.values) :
                      SameTree(v.val.values[i], w.val.values[i])
         [] v.type \in {"JTYPE_STRING", "JTYPE_INT"} -> v.val = w.val
         [] OTHER -> TRUE

\* C14: for every valid document D, parsing what json_print_object prints
\* for parse(D) succeeds and yields a tree structurally equal to parse(D).
C14_PrintThenParse ==
    pc = "reread" =>
        /\ ~reread.null
        /\ SameTree(Value("JTYPE_OBJECT", [members |-> reread.members]), RootValue)

\* The lines of s: the texts between its '\n' bytes.
RECURSIVE SplitLines(_, _)
SplitLines(s, acc) ==
    IF s = <<>> THEN <<acc>>
    ELSE IF Head(s) = Ch.lf THEN <<acc>> \o SplitLines(Tail(s), <<>>)
    ELSE SplitLines(Tail(s), Append(acc, Head(s)))

PrintedLines == SplitLines(printed, <<>>)

\* The number of spaces a line starts with, and what follows them.
Indent(l) ==
    IF \A i \in 1..Len(l) : l[i] = Ch.sp THEN Len(l)
    ELSE (CHOOSE i \in 1..Len(l) : l[i] # Ch.sp /\ \A j \in 1..(i - 1) : l[j] = Ch.sp) - 1

Body(l) == SubSeq(l, Indent(l) + 1, Len(l))

Count(l, set) == Cardinality({i \in 1..Len(l) : l[i] \in set})

\* Brackets opened and not closed in the lines before line j.
RECURSIVE DepthBefore(_, _)
DepthBefore(lines, j) ==
    IF j <= 1 THEN 0
    ELSE DepthBefore(lines, j - 1)
         + Count(lines[j - 1], {Ch.lbrace, Ch.lbracket})
         - Count(lines[j - 1], {Ch.rbrace, Ch.rbracket})

IsCloser(l) == Body(l) # <<>> /\ Body(l)[1] \in {Ch.rbrace, Ch.rbracket}

EndsWith(l, set) == l # <<>> /\ l[Len(l)] \in set

\* The line that opened the container line j lies in.
Encloser(lines, j) ==
    CHOOSE i \in 1..(j - 1) :
        /\ Indent(lines[i]) < Indent(lines[j])
        /\ \A k \in (i + 1)..(j - 1) : Indent(lines[k]) >= Indent(lines[j])

StartsWithKey(b) ==
    /\ b # <<>>
    /\ b[1] = Ch.quote
    /\ \E k \in 2..(Len(b) - 2) :
          b[k] = Ch.quote /\ b[k + 1] = Ch.colon /\ b[k + 2] = Ch.sp

\* The lines printing v takes beyond the one it starts on: one for each
\* member or element and what that takes, and one for the closing bracket.
RECURSIVE Rows(_), RowsOfValues(_)
Rows(v) ==
    IF v.type = "JTYPE_OBJECT" /\ v.val.members # <<>>
    THEN 1 + RowsOfValues([i \in 1..Len(v.val.members) |-> v.val.members[i].value])
    ELSE IF v.type = "JTYPE_ARRAY" /\ v.val.values # <<>>
    THEN 1 + RowsOfValues(v.val.values)
    ELSE 0

RowsOfValues(vs) ==
    IF vs = <<>> THEN 0 ELSE 1 + Rows(Head(vs)) + RowsOfValues(Tail(vs))

IsMemberOfRoot(l) == Indent(l) = 2 /\ ~IsCloser(l)

\* C15: json_print_object prints an empty object as {} and an empty array
\* as [] on one line, every member or element of a non-empty container on
\* its own line, indented by 2 spaces per nesting level, keys double-quoted,
\* elements separated by commas, and an object's members in stored order.
C15_PrintedLayout ==
    LET Layout(lines, n) ==
            /\ lines[n + 1] = <<>>
            /\ n = 1 + Rows(RootValue)
            /\ object.members = <<>> => lines[1] = <<Ch.lbrace, Ch.rbrace>>
            /\ \A j \in 1..n :
                  Indent(lines[j]) =
                      2 * (DepthBefore(lines, j) - (IF IsCloser(lines[j]) THEN 1 ELSE 0))
            /\ \A j \in 1..(n - 1) :
                  \/ EndsWith(lines[j], {Ch.lbrace, Ch.lbracket})
                  \/ EndsWith(lines[j], {Ch.comma}) <=> ~IsCloser(lines[j + 1])
            /\ \A j \in 2..n :
                  (~IsCloser(lines[j]) /\ EndsWith(lines[Encloser(lines, j)], {Ch.lbrace}))
                      => StartsWithKey(Body(lines[j]))
            /\ Len(SelectSeq(lines, IsMemberOfRoot)) = Len(object.members)
            /\ \A i \in 1..Len(object.members) :
                  SubSeq(Body(SelectSeq(lines, IsMemberOfRoot)[i]), 1,
                         Len(object.members[i].key) + 4)
                      = Str(object.members[i].key) \o <<Ch.colon, Ch.sp>>
    IN  pc = "printed" => Layout(PrintedLines, Len(PrintedLines) - 1)

\* {"b":{"ab":false}} was read and printed as
\* {
\*   "b": {
\*     "ab": true
\*   }
\* }
C15_Witness ==
    /\ pc = "printed"
    /\ file = <<123, 34, 98, 34, 58, 123, 34, 97, 98, 34, 58>> \o T_false \o <<125, 125>>
    /\ printed = <<123, 10>>
                 \o <<32, 32, 34, 98, 34, 58, 32, 123, 10>>
                 \o <<32, 32, 32, 32, 34, 97, 98, 34, 58, 32>> \o T_true \o <<10>>
                 \o <<32, 32, 125, 10>>
                 \o <<125, 10>>

KeysOf(members) == {members[i].key : i \in 1..Len(members)}

\* The value stored under k in a list where k occurs once.
ValueAt(members, k) ==
    members[CHOOSE i \in 1..Len(members) : members[i].key = k].value

IsReadOf(obj, f) ==
    LET Same(r) == r.ok /\ ~obj.null /\ obj.members = r.v.members
    IN  Same(json_read(f))

IsPrefix(s, t) == Len(s) <= Len(t) /\ s = SubSeq(t, 1, Len(s))

\* The elements of the array literal in {"k":[...]}, in the order written.
ValuesWritten(f) ==
    [i \in 1..Len(ElementsWritten(f)) |-> Denotes(ElementsWritten(f)[i])]

\* What an iteration has to visit: the members of the root object, or the
\* elements written in the array literal.
ToVisit == IF it.of = "object" THEN object.members ELSE ValuesWritten(file)

\* C18: a loop of json_iterator_get and json_iterator_increment over an
\* object sees its members one by one in ascending key order, each once, and
\* over an array the elements in the order written; json_iterator_get returns
\* NULL exactly when all were seen, and still does after further increments.
C18_IterationOrder ==
    /\ pc \in {"iter", "at", "end", "past"} =>
           /\ IsPrefix(visited, ToVisit)
           /\ it.of = "object" => KeysAscending(visited)
    /\ pc = "at" => ~current.null /\ IsPrefix(Append(visited, current.item), ToVisit)
    /\ pc \in {"end", "past"} => visited = ToVisit
    /\ pc = "end" => current.null

\* {"b":..,"a":..} was iterated to the end, the iterator was incremented
\* there, and json_iterator_get was called once more.
C18_Witness ==
    /\ pc = "end"
    /\ it.of = "object"
    /\ Len(visited) = 2
    /\ file[3] = Ch.b
    /\ visited[1].key = <<Ch.a>>
    /\ it = json_iterator_increment(it)
    /\ \E i \in 1..Len(file) : file[i] = Ch.a /\ i > 3

\* C19: after json_object_destroy(object) returned, none of the blocks the
\* parse allocated for the document is still allocated; for a NULL object
\* nothing was allocated and nothing changes.
C19_DestroyReleasesAll ==
    pc = "destroyed" => owned = 0

\* The members written in a flat object literal {"k":d,...} of one-byte keys
\* and one-digit values, in the order written.
MembersWritten(f) ==
    LET Texts(b) == IF b = <<>> THEN <<>> ELSE SplitCommas(b, <<>>)
        Member(t) == [key |-> <<t[2]>>, value |-> Value("JTYPE_INT", t[5] - 48)]
        Of(ts) == [i \in 1..Len(ts) |-> Member(ts[i])]
    IN  Of(Texts(SubSeq(f, 2, Len(f) - 1)))

Occurrences(s, x) == Cardinality({i \in 1..Len(s) : s[i] = x})

\* C20: an object literal in which a key is written more than once is read
\* successfully, and the object holds each member written as often as it was
\* written: none is rejected, dropped or overwritten.
C20_DuplicateKeysKept ==
    (pc = "read" /\ ~DistinctKeys(MembersWritten(file))) =>
        /\ ~object.null
        /\ Len(object.members) = Len(MembersWritten(file))
        /\ \A i \in 1..Len(MembersWritten(file)) :
              Occurrences(object.members, MembersWritten(file)[i])
                  = Occurrences(MembersWritten(file), MembersWritten(file)[i])

\* {"a":1,"a":2,"a":1} was read into an object of three members.
C20_Witness ==
    /\ pc = "read"
    /\ file = <<Ch.lbrace>> \o Str(<<Ch.a>>) \o <<Ch.colon, 49, Ch.comma>>
                 \o Str(<<Ch.a>>) \o <<Ch.colon, 50, Ch.comma>>
                 \o Str(<<Ch.a>>) \o <<Ch.colon, 49, Ch.rbrace>>
    /\ Len(object.members) = 3

\* What json_read returns for the bytes f when it runs alone.
ReadAlone(f) ==
    LET Returned(r) ==
            IF r.ok THEN [null |-> FALSE, members |-> r.v.members] ELSE NullObject
    IN  Returned(json_read(f))

\* C21: of two json_read calls on two files whose statements interleave in
\* any order, each returns what it returns when it runs alone: NULL or the
\* same tree.
C21_CallsDoNotInterfere ==
    \A c \in 1..2 :
        calls.pc[c] = "returned" => calls.ret[c] = ReadAlone(PathOf(c))

\* Both calls have returned, one with a tree and one with NULL.
C21_Witness ==
    /\ calls.pc = <<"returned", "returned">>
    /\ file # file2
    /\ ~calls.ret[1].null
    /\ calls.ret[1].members # <<>>
    /\ calls.ret[2].null

\* The scan of s from `state`, i bytes read: the length and type of the
\* literal at the last accepting state passed, as [end, type], `best` so far.
RECURSIVE LastAccepted(_, _, _, _)
LastAccepted(s, i, state, best) ==
    LET Best == IF accepting_state_int(state) THEN [end |-> i, type |-> "JTYPE_INT"]
                ELSE IF accepting_state_float(state) THEN [end |-> i, type |-> "JTYPE_FLOAT"]
                ELSE best
    IN  IF i = Len(s) \/ next_state(state, s[i + 1]) = -1 THEN Best
        ELSE LastAccepted(s, i + 1, next_state(state, s[i + 1]), Best)

\* C22: when the recognizer stops, at a byte with no transition or at the end
\* of the stream, it reports the literal that ended at the last accepting
\* state it passed, with that state's type, and fails (-2) only if it passed
\* none.
C22_ResolvesLastAccepting ==
    pc = "number" =>
        LET Claimed(best) == scan.end = best.end /\ scan.type = best.type
        IN  Claimed(LastAccepted(file, 0, 0, [end |-> -2, type |-> "none"]))

\* C23: a non-empty object or array is read only if exactly one comma stands
\* between neighbouring elements: with a comma missing, doubled, before the
\* first element or after the last, json_read returns NULL; with the commas
\* in place it returns the object.
C23_CommasRequired ==
    pc = "read" => (object.null <=> file \notin CommaProper)

\* {"b":1 "a":"b"} was rejected with the diagnostic of the missing comma.
C23_Witness ==
    /\ pc = "read"
    /\ file = <<Ch.lbrace>> \o Str(<<Ch.b>>) \o <<Ch.colon, 49, Ch.sp>>
                 \o Str(<<Ch.a>>) \o <<Ch.colon>> \o Str(<<Ch.b>>) \o <<Ch.rbrace>>
    /\ object.null
    /\ Printed("Missing comma between members")

\* The white space in front of the first other byte of s, all of s if there
\* is none.
Lead(s) ==
    IF \E i \in 1..Len(s) : ~isspace(s[i])
    THEN SubSeq(s, 1, (CHOOSE i \in 1..Len(s) :
                          ~isspace(s[i]) /\ \A j \in 1..(i - 1) : isspace(s[j])) - 1)
    ELSE s

\* The stream with the white space in front skipped and the byte after it
\* read and pushed back.
AtLookahead(s) ==
    [Stream0 EXCEPT !.pos = Len(Lead(s)), !.line = 1 + Newlines(s, Len(Lead(s))),
                    !.unget = 1, !.most = 1, !.reads = Len(Lead(s)) + 1]

\* C24: parse_value returns NULL after printing "Invalid value", having read
\* nothing but white space, when the first other byte is none of [ { - digit
\* " t f n or the stream ends; for each of those bytes it returns what the
\* sub-parser of that byte returns when started with that byte still unread.
C24_ValueDispatch ==
    pc = "value" =>
        LET c  == IF Len(Lead(file)) < Len(file) THEN file[Len(Lead(file)) + 1] ELSE EOF
            at == AtLookahead(file)
        IN  CASE c = Ch.lbracket -> scan = parse_value_array(file, at)
              [] c = Ch.lbrace -> scan = parse_value_object(file, at)
              [] c = Ch.minus \/ c \in 48..57 -> scan = parse_value_number(file, at)
              [] c = Ch.quote -> scan = parse_value_string(file, at)
              [] c = Ch.t -> scan = parse_value_true(file, at)
              [] c = Ch.f -> scan = parse_value_false(file, at)
              [] c = Ch.n -> scan = parse_value_null(file, at)
              [] OTHER -> /\ ~scan.ok
                          /\ scan.st.pos = at.pos
                          /\ scan.st.out = <<[line |-> at.line, msg |-> "Invalid value"]>>

\* The stream ended after a newline: no value, "Invalid value" on line 2.
C24_Witness ==
    /\ pc = "value"
    /\ file = <<Ch.lf>>
    /\ ~scan.ok
    /\ scan.st.out = <<[line |-> 2, msg |-> "Invalid value"]>>

\* C25: when the stream ends after an opening quote with no other quote,
\* get_next_string returns no string, and json_read returns NULL for a
\* document whose last quote opens a key or a string value that is never
\* closed.
C25_UnterminatedStringFails ==
    /\ (/\ pc = "scanned"
        /\ FirstNonSpace(file) = Ch.quote
        /\ Cardinality(Quotes(file)) = 1)
           => (~scan.ok /\ scan.st.out = <<[line |-> scan.st.line,
                                             msg |-> "Expected closing quotes"]>>)
    /\ (pc = "read" /\ Cardinality(Quotes(file)) % 2 = 1) => object.null

\* {"b":"a was read: the value's quote is never closed.
C25_Witness ==
    /\ pc = "read"
    /\ file = <<Ch.lbrace>> \o Str(<<Ch.b>>) \o <<Ch.colon, Ch.quote, Ch.a>>
    /\ object.null
    /\ Printed("Expected closing quotes")

\* C26: in no parse, of a well-formed or a malformed input, is ungetch called
\* twice without a read or a seek of the stream in between: at most one
\* character is ever pushed back.
C26_OnePushback ==
    /\ stream.most <= 1
    /\ pc = "read" => stream.unget <= 1

\* A document with a number was read: the recognizer and the lookahead of
\* parse_value each pushed a character back.
C26_Witness ==
    /\ pc = "read"
    /\ ~object.null
    /\ \E i \in 1..Len(file) : file[i] = Ch.minus
    /\ stream.most = 1

\* The stream of f at position p, as json_read would have it there.
StreamAt(f, p) == [Stream0 EXCEPT !.pos = p, !.line = 1 + Newlines(f, p)]

\* The position of the first byte of f at or after p that is not white space.
TokenStart(f, p) ==
    IF \E i \in (p + 1)..Len(f) : ~isspace(f[i])
    THEN (CHOOSE i \in (p + 1)..Len(f) :
             ~isspace(f[i]) /\ \A j \in (p + 1)..(i - 1) : isspace(f[j])) - 1
    ELSE Len(f)

\* The nesting of containers in the value v.
RECURSIVE Depth(_)
Depth(v) ==
    LET Deepest(vs) ==
            IF vs = {} THEN 1
            ELSE 1 + (CHOOSE d \in {Depth(w) : w \in vs} : \A w \in vs : Depth(w) <= d)
    IN  CASE v.type = "JTYPE_OBJECT" ->
                 Deepest({v.val.members[i].value : i \in 1..Len(v.val.members)})
          [] v.type = "JTYPE_ARRAY" ->
                 Deepest({v.val.values[i] : i \in 1..Len(v.val.values)})
          [] OTHER -> 0

\* A value or a string parsed from position p leaves the stream after the
\* first byte of the token.
Advances(f, p) ==
    LET After(r) == r.ok => r.st.pos > TokenStart(f, p)
    IN  /\ After(parse_value(f, StreamAt(f, p)))
        /\ After(get_next_string(f, StreamAt(f, p)))

\* json_read has made at most three calls of getch or fgets per byte of the
\* file (the scan, a lookahead, and the extraction of a span), three more
\* at the end of the file, and has nested no deeper than the file is long.
BoundedWork ==
    pc = "read" =>
        /\ stream.reads <= 3 * (Len(file) + 1)
        /\ ~object.null => Depth(RootValue) <= Len(file)

\* C27: json_read does a bounded amount of work on every input, well-formed
\* or not: a string or a value parsed anywhere in the input leaves the
\* stream after the place where its token started (so every turn of the
\* member and value loops consumes input), and when json_read has returned,
\* the calls that read the stream and the depth of nesting are bounded by
\* the length of the input.
C27_Terminates ==
    /\ pc = "start" => \A p \in 0..Len(file) : Advances(file, p)
    /\ BoundedWork

\* "\nb" was read as a key: the span extraction stopped at the newline and
\* the parse went on inside the string, and json_read returned.
C27_Witness ==
    /\ pc = "read"
    /\ \E i \in 1..(Len(file) - 2) :
          file[i] = Ch.quote /\ file[i + 1] = Ch.lf /\ file[i + 2] = Ch.b
    /\ stream.pos > 3

\* C28: a document with a run of space, tab, CR or LF inserted between two
\* of its tokens is read exactly as the document without the run: NULL for
\* both, or the same tree.
C28_WhiteSpaceBetweenTokens ==
    pc = "read2" => (~other.null /\ object = other)

\* {"b":-1} with a tab before the number was read as {"b":-1} is.
C28_Witness ==
    /\ pc = "read2"
    /\ file2 = <<Ch.lbrace>> \o Str(<<Ch.b>>) \o <<Ch.colon, Ch.minus, 49, Ch.rbrace>>
    /\ file = <<Ch.lbrace>> \o Str(<<Ch.b>>) \o <<Ch.colon, Ch.tab, Ch.minus, 49, Ch.rbrace>>
    /\ ~object.null
    /\ object = other

C30_WritesInsideBuffer ==
    (pc = "scanned" /\ scan.ok /\ "size" \in DOMAIN scan) =>
        \A i \in scan.written : 0 <= i /\ i <= scan.size - 1

====
